-------------------------- MODULE SedaPoolProofs ----------------------------
(***************************************************************************)
(* The inductive invariant IInv of SedaPool, the theorems it yields for    *)
(* any number of stages, workers, producers, controllers and events, and   *)
(* the proof that SedaPool implements StageQueue.                          *)
(***************************************************************************)
EXTENDS SedaPoolInv, SedaPoolRefinement, TLAPS, FiniteSetTheorems,
        FunctionTheorems, SequenceTheorems

-----------------------------------------------------------------------------
(* Steps preserve TypeOK and ControlInv. *)

LEMMA ThreadKinds ==
  /\ \A c \in Controllers : c \in Threads /\ c # None /\ c \notin Workers
                           /\ c \notin Producers
  /\ \A w \in Workers : w \in Threads /\ w \notin Producers
  /\ \A p \in Producers : p \in Threads
  BY ThreadAssumption DEF Threads

\* While thread_mutex_ is free, nobody connects or disconnects killer_.
LEMMA KillerFree ==
  ASSUME TypeOK, ControllerControl, MutexControl, thread_mutex_ = None
  PROVE  /\ \A d \in Controllers : target[d] # Killer
         /\ \A d \in Controllers : cpc[d] # "kgen"
  BY ThreadKinds, StageAssumption DEF TypeOK, ControllerControl, MutexControl, AllStages

\* release_event() wakes at most one disconnect() of its stage.
LEMMA ReleaseEffect ==
  ASSUME NEW s, release_event(s)
  PROVE  \/ cpc' = cpc
         \/ \E d \in Controllers :
              cpc[d] = "dwait" /\ target[d] = s /\ cpc' = [cpc EXCEPT ![d] = "dwoken"]
  BY DEF release_event, drop_reference, DisconnectWaiters

\* thread_kill() wakes at most one kill_threads().
LEMMA ThreadKillEffect ==
  ASSUME NEW w \in Workers, ThreadKill(w)
  PROVE  \/ cpc' = cpc
         \/ \E d \in Controllers :
              cpc[d] = "kwait" /\ cpc' = [cpc EXCEPT ![d] = "kwoken"]
  BY DEF ThreadKill, count_kill, KillWaiters

\* The two ways out of the test in disconnect()'s loop.
Waits(c, s) ==
  /\ event_ref_[s] > 0
  /\ cpc' = [cpc EXCEPT ![c] = "dwait"]
  /\ target' = [target EXCEPT ![c] = s]
  /\ th_pool_' = th_pool_
Finishes(c, s) ==
  /\ ~(event_ref_[s] > 0)
  /\ cpc' = [cpc EXCEPT ![c] = "ready"]
  /\ target' = [target EXCEPT ![c] = None]
  /\ th_pool_' = [th_pool_ EXCEPT ![s] = FALSE]

LEMMA DisconnectEffect ==
  ASSUME NEW c, NEW s, wait_or_finish(c, s)
  PROVE  Waits(c, s) \/ Finishes(c, s)
  BY DEF wait_or_finish, wait_if, Waits, Finishes

\* A disconnect() that resumes keeps thread_mutex_ as long as it waits.
LEMMA ResumeEffect ==
  ASSUME TypeOK, ControllerControl, NEW c \in Controllers, DisconnectResume(c)
  PROVE  /\ cpc[c] = "dwoken"
         /\ target[c] \in AllStages
         /\ \/ Waits(c, target[c]) /\ thread_mutex_' = thread_mutex_
            \/ /\ Finishes(c, target[c])
               /\ thread_mutex_' = IF target[c] = Killer THEN None ELSE thread_mutex_
<1>1. target[c] \in AllStages /\ cpc[c] = "dwoken"
  BY DEF TypeOK, ControllerControl, DisconnectResume
<1>2. event_ref_[target[c]] \in Int
  BY <1>1 DEF TypeOK
<1>3. Waits(c, target[c]) \/ Finishes(c, target[c])
  BY DisconnectEffect DEF DisconnectResume
<1>4. thread_mutex_' = IF target[c] = Killer /\ event_ref_[Killer] <= 0
                         THEN None ELSE thread_mutex_
  BY DEF DisconnectResume
<1>5. CASE Waits(c, target[c])
  <2>1. ~(target[c] = Killer /\ event_ref_[Killer] <= 0)
    BY <1>2, <1>5 DEF Waits
  <2> QED
    BY <1>1, <1>4, <1>5, <2>1
<1>6. CASE Finishes(c, target[c])
  <2>1. event_ref_[target[c]] <= 0
    BY <1>2, <1>6 DEF Finishes
  <2> QED
    BY <1>1, <1>4, <1>6, <2>1
<1> QED
  BY <1>3, <1>5, <1>6

\* kill_threads() past its early return: an assertion failure, or the start
\* of a kill transaction.
Starts(c) ==
  /\ ~connected_[Killer]
  /\ cpc' = [cpc EXCEPT ![c] = "kgen"]
  /\ target' = [target EXCEPT ![c] = Killer]
  /\ thread_mutex_' = c
  /\ th_pool_' = [th_pool_ EXCEPT ![Killer] = TRUE]
  /\ connected_' = [connected_ EXCEPT ![Killer] = TRUE]
  /\ backlog' = [backlog EXCEPT ![c] = Len(event_list_[Killer])]
  /\ event_ref_' = [event_ref_ EXCEPT ![Killer] = Len(event_list_[Killer])]
Aborts(c) ==
  /\ cpc' = [cpc EXCEPT ![c] = "aborted"]
  /\ UNCHANGED <<target, thread_mutex_, th_pool_, connected_, backlog, event_ref_>>

LEMMA KillThreadsEffect ==
  ASSUME NEW c, NEW n, KillThreads(c, n)
  PROVE  /\ cpc[c] = "ready"
         /\ thread_mutex_ = None
         /\ UNCHANGED <<event_list_, run_queue_, n_idles_, nthreads_, wpc, serving, ev,
                        adding>>
         /\ Starts(c) \/ Aborts(c)
<1>1. CASE connected_[Killer]
  BY <1>1 DEF KillThreads, Aborts, stageVars, runVars, workVars
<1>2. CASE ~connected_[Killer]
  BY <1>2 DEF KillThreads, Starts, begin_connect, connect_with, runVars, workVars
<1> QED
  BY <1>1, <1>2


-----------------------------------------------------------------------------
(* Counting.                                                               *)

LEMMA ThreadsFinite == IsFiniteSet(Threads)
  BY ThreadAssumption, FS_Union DEF Threads

LEMMA CountTypes ==
  ASSUME TypeOK, NEW s \in AllStages
  PROVE  /\ IsFiniteSet(Occurrences(s)) /\ Cardinality(Occurrences(s)) \in Nat
         /\ IsFiniteSet(Adders(s)) /\ Cardinality(Adders(s)) \in Nat
         /\ IsFiniteSet(Servers(s)) /\ Cardinality(Servers(s)) \in Nat
         /\ IsFiniteSet(Poppers(s)) /\ Cardinality(Poppers(s)) \in Nat
         /\ Owed(s) \in Nat
<1>1. IsFiniteSet(Occurrences(s))
  <2>1. Len(run_queue_) \in Nat /\ DOMAIN run_queue_ = 1 .. Len(run_queue_)
    BY DEF TypeOK
  <2>2. IsFiniteSet(1 .. Len(run_queue_))
    BY <2>1, FS_Interval
  <2>3. Occurrences(s) \subseteq 1 .. Len(run_queue_)
    BY <2>1 DEF Occurrences
  <2> QED
    BY <2>2, <2>3, FS_Subset
<1>2. IsFiniteSet(Adders(s))
  <2>1. Adders(s) \subseteq Threads
    BY DEF Adders
  <2> QED
    BY <2>1, ThreadsFinite, FS_Subset
<1>3. IsFiniteSet(Servers(s)) /\ IsFiniteSet(Poppers(s))
  <2>1. Servers(s) \subseteq Workers /\ Poppers(s) \subseteq Workers
    BY DEF Servers, Poppers
  <2> QED
    BY <2>1, ThreadAssumption, FS_Subset
<1>4. Owed(s) \in Nat
  <2>1. CASE Connecting(s) = {}
    BY <2>1 DEF Owed
  <2>2. CASE Connecting(s) # {}
    <3>1. (CHOOSE c \in Connecting(s) : TRUE) \in Controllers
      BY <2>2 DEF Connecting
    <3> QED
      BY <2>2, <3>1 DEF Owed, TypeOK
  <2> QED
    BY <2>1, <2>2
<1> QED
  BY <1>1, <1>2, <1>3, <1>4, FS_CardinalityType

\* A worker that serves a stage, and a thread about to schedule it, each
\* account for a reference.
LEMMA ServerHasReference ==
  ASSUME TypeOK, RefCount, NEW s \in AllStages, NEW w \in Workers, serving[w] = s
  PROVE  event_ref_[s] > 0
<1>1. Servers(s) # {}
  BY DEF Servers
<1>2. Cardinality(Servers(s)) # 0
  BY <1>1, CountTypes, FS_EmptySet
<1> QED
  BY <1>2, CountTypes DEF RefCount

LEMMA ReferencesNat ==
  ASSUME TypeOK, RefCount, NEW s \in AllStages
  PROVE  event_ref_[s] \in Nat
  BY CountTypes DEF RefCount

\* Which stages are closing after the test in disconnect()'s loop.
LEMMA ClosingWaits ==
  ASSUME TypeOK, NEW c \in Controllers, NEW s \in AllStages, Waits(c, s),
         target[c] \in {None, s}
  PROVE  \A r \in AllStages : Closing(r)' <=> Closing(r) \/ r = s
<1> SUFFICES ASSUME NEW r \in AllStages PROVE Closing(r)' <=> Closing(r) \/ r = s
  OBVIOUS
<1>1. /\ cpc' = [cpc EXCEPT ![c] = "dwait"]
      /\ target' = [target EXCEPT ![c] = s]
  BY DEF Waits
<1>2. Closing(s)'
  BY <1>1 DEF Closing, TypeOK
<1>3. ASSUME r # s PROVE Closing(r)' <=> Closing(r)
  BY <1>1, <1>3, StageAssumption DEF Closing, TypeOK
<1> QED
  BY <1>2, <1>3

LEMMA ClosingFinishes ==
  ASSUME TypeOK, NEW c \in Controllers, NEW s \in AllStages, Finishes(c, s),
         target[c] \in {None, s},
         \A d \in Controllers : d # c => target[d] # s
  PROVE  \A r \in AllStages : Closing(r)' <=> Closing(r) /\ r # s
<1> SUFFICES ASSUME NEW r \in AllStages PROVE Closing(r)' <=> Closing(r) /\ r # s
  OBVIOUS
<1>1. /\ cpc' = [cpc EXCEPT ![c] = "ready"]
      /\ target' = [target EXCEPT ![c] = None]
  BY DEF Finishes
<1>2. ~Closing(s)'
  BY <1>1, StageAssumption DEF Closing, TypeOK
<1>3. ASSUME r # s PROVE Closing(r)' <=> Closing(r)
  BY <1>1, <1>3, StageAssumption DEF Closing, TypeOK
<1> QED
  BY <1>2, <1>3

-----------------------------------------------------------------------------
(* A step preserves the types.  nthreads_ is a natural number because it   *)
(* counts threads (ThreadCounts).                                          *)
LEMMA TypeStep ==
  ASSUME TypeOK, ControlInv, nthreads_ \in Nat, [Next]_vars
  PROVE  TypeOK'
<1>1. ASSUME NEW t \in Threads, Schedule(t) PROVE TypeOK'
  <2>1. wpc' \in [Workers -> WorkerPC]
    BY <1>1 DEF TypeOK, WorkerPC, Schedule, schedule, push_stage, signal_run, Idle
  <2>2. run_queue_' \in Seq(AllStages)
    BY <1>1 DEF TypeOK, Schedule, schedule, push_stage, signal_run, Idle, AllStages
  <2>3. adding' \in [Threads -> AllStages \cup {None}]
    BY <1>1
      DEF TypeOK, Schedule, schedule, push_stage, signal_run, Idle, AllStages, Threads
  <2> QED
    BY <1>1, <2>1, <2>2, <2>3
      DEF TypeOK, Schedule, push_stage, stageVars, runVars, countVars, workVars,
          ctrlVars
<1>2. ASSUME NEW p \in Producers, NEW s \in Stages, NEW e \in Events, ProducerAdd(p, s,
             e)
      PROVE  TypeOK'
  <2>1. event_list_' \in [AllStages -> Seq(Events \cup {KillEvent})]
    BY <1>2 DEF TypeOK, ProducerAdd, add_event, AllStages
  <2>2. event_ref_' \in [AllStages -> Int]
    BY <1>2 DEF TypeOK, ProducerAdd, add_event, AllStages
  <2>3. adding' \in [Threads -> AllStages \cup {None}]
    <3>1. s \in AllStages /\ p \in Threads
      BY DEF AllStages, Threads
    <3>2. adding' = adding \/ adding' = [adding EXCEPT ![p] = s]
      BY <1>2 DEF ProducerAdd, add_event
    <3>3. adding \in [Threads -> AllStages \cup {None}]
      BY DEF TypeOK
    <3> QED
      BY <3>1, <3>2, <3>3
  <2> QED
    BY <1>2, <2>1, <2>2, <2>3
      DEF TypeOK, ProducerAdd, stageVars, runVars, countVars, workVars, ctrlVars
<1>3. ASSUME NEW w \in Workers, WorkerWait(w) PROVE TypeOK'
  <2>1. n_idles_' \in Int
    BY <1>3 DEF TypeOK, WorkerWait, Woken
  <2>2. wpc' \in [Workers -> WorkerPC]
    BY <1>3 DEF TypeOK, WorkerPC, WorkerWait, Woken
  <2> QED
    BY <1>3, <2>1, <2>2
      DEF TypeOK, WorkerWait, stageVars, runVars, countVars, workVars, ctrlVars
<1>4. ASSUME NEW w \in Workers, WorkerPop(w) PROVE TypeOK'
  <2>1. n_idles_' \in Int
    BY <1>4 DEF TypeOK, WorkerPop, pop_stage, Woken
  <2>2. serving' \in [Workers -> AllStages \cup {None}]
    BY <1>4 DEF TypeOK, WorkerPop, pop_stage, Woken, AllStages
  <2>3. run_queue_' \in Seq(AllStages)
    BY <1>4 DEF TypeOK, WorkerPop, pop_stage, Woken, AllStages
  <2>4. wpc' \in [Workers -> WorkerPC]
    BY <1>4 DEF TypeOK, WorkerPC, WorkerPop, pop_stage, Woken
  <2> QED
    BY <1>4, <2>1, <2>2, <2>3, <2>4
      DEF TypeOK, WorkerPop, pop_stage, stageVars, runVars, countVars, workVars,
          ctrlVars
<1>5. ASSUME NEW w \in Workers, RemoveEvent(w) PROVE TypeOK'
  <2>1. ev' \in [Workers -> Events \cup {KillEvent, None}]
    <3>1. serving[w] \in AllStages
      BY <1>5 DEF TypeOK, RemoveEvent, dispatch, ControlInv, WorkerControl
    <3>2. queue_of(w) \in Seq(Events \cup {KillEvent}) /\ queue_of(w) # <<>>
      BY <1>5, <3>1 DEF TypeOK, RemoveEvent, dispatch, queue_of
    <3>3. Head(queue_of(w)) \in Events \cup {KillEvent}
      BY <3>2
    <3> QED
      BY <1>5, <3>3 DEF TypeOK, RemoveEvent, dispatch
  <2>2. event_list_' \in [AllStages -> Seq(Events \cup {KillEvent})]
    <3>1. serving[w] \in AllStages
      BY <1>5 DEF TypeOK, RemoveEvent, dispatch, ControlInv, WorkerControl
    <3>2. queue_of(w) \in Seq(Events \cup {KillEvent}) /\ queue_of(w) # <<>>
      BY <1>5, <3>1 DEF TypeOK, RemoveEvent, dispatch, queue_of
    <3>3. Tail(queue_of(w)) \in Seq(Events \cup {KillEvent})
      BY <3>2
    <3> QED
      BY <1>5, <3>3 DEF TypeOK, RemoveEvent, dispatch
  <2>3. wpc' \in [Workers -> WorkerPC]
    BY <1>5
      DEF TypeOK, WorkerPC, RemoveEvent, dispatch, queue_of, ControlInv, WorkerControl
  <2> QED
    BY <1>5, <2>1, <2>2, <2>3
      DEF TypeOK, RemoveEvent, dispatch, stageVars, runVars, countVars, workVars,
          ctrlVars
<1>6. ASSUME NEW w \in Workers, HandleDone(w) PROVE TypeOK'
  <2>1. ev' \in [Workers -> Events \cup {KillEvent, None}]
    BY <1>6 DEF TypeOK, HandleDone, AllStages
  <2>2. wpc' \in [Workers -> WorkerPC]
    BY <1>6 DEF TypeOK, WorkerPC, HandleDone
  <2> QED
    BY <1>6, <2>1, <2>2
      DEF TypeOK, HandleDone, stageVars, runVars, countVars, workVars, ctrlVars
<1>7. ASSUME NEW w \in Workers, NEW s \in Stages, HandleForward(w, s) PROVE TypeOK'
  <2>1. event_list_' \in [AllStages -> Seq(Events \cup {KillEvent})]
    BY <1>7 DEF TypeOK, HandleForward, add_event, AllStages, ControlInv, WorkerControl
  <2>2. event_ref_' \in [AllStages -> Int]
    BY <1>7 DEF TypeOK, HandleForward, add_event, AllStages, ControlInv, WorkerControl
  <2>3. adding' \in [Threads -> AllStages \cup {None}]
    <3>1. s \in AllStages /\ w \in Threads
      BY DEF AllStages, Threads
    <3> QED
      BY <1>7, <3>1 DEF TypeOK, HandleForward, add_event
  <2>4. ev' \in [Workers -> Events \cup {KillEvent, None}]
    BY <1>7 DEF TypeOK, HandleForward, add_event, AllStages, ControlInv, WorkerControl
  <2>5. wpc' \in [Workers -> WorkerPC]
    BY <1>7 DEF TypeOK, WorkerPC, HandleForward, add_event, ControlInv, WorkerControl
  <2> QED
    BY <1>7, <2>1, <2>2, <2>3, <2>4, <2>5
      DEF TypeOK, HandleForward, stageVars, runVars, countVars, workVars, ctrlVars
<1>8. ASSUME NEW w \in Workers, ReleaseEvent(w) PROVE TypeOK'
  <2>1. event_ref_' \in [AllStages -> Int]
    BY <1>8
      DEF TypeOK, ReleaseEvent, release_event, drop_reference, DisconnectWaiters,
          AllStages, ControlInv, WorkerControl, stageVars, runVars, countVars, workVars,
          ctrlVars
  <2>2. cpc' \in [Controllers -> ControllerPC]
    BY <1>8
      DEF TypeOK, ControllerPC, ReleaseEvent, release_event, drop_reference,
          DisconnectWaiters, ControlInv, WorkerControl, stageVars, runVars, countVars,
          workVars, ctrlVars
  <2>3. serving' \in [Workers -> AllStages \cup {None}]
    BY <1>8
      DEF TypeOK, ReleaseEvent, release_event, drop_reference, DisconnectWaiters,
          AllStages, ControlInv, WorkerControl, stageVars, runVars, countVars, workVars,
          ctrlVars
  <2>4. wpc' \in [Workers -> WorkerPC]
    BY <1>8
      DEF TypeOK, WorkerPC, ReleaseEvent, release_event, drop_reference,
          DisconnectWaiters, ControlInv, WorkerControl, stageVars, runVars, countVars,
          workVars, ctrlVars
  <2> QED
    BY <1>8, <2>1, <2>2, <2>3, <2>4
      DEF TypeOK, ReleaseEvent, stageVars, runVars, countVars, workVars, ctrlVars
<1>9. ASSUME NEW w \in Workers, ThreadKill(w) PROVE TypeOK'
  <2>1. nthreads_' \in Int
    BY <1>9 DEF TypeOK, ThreadKill, count_kill, KillWaiters
  <2>2. threads_to_kill_' \in Int
    BY <1>9 DEF TypeOK, ThreadKill, count_kill, KillWaiters
  <2>3. cpc' \in [Controllers -> ControllerPC]
    BY <1>9 DEF TypeOK, ControllerPC, ThreadKill, count_kill, KillWaiters
  <2>4. wpc' \in [Workers -> WorkerPC]
    BY <1>9 DEF TypeOK, WorkerPC, ThreadKill, count_kill, KillWaiters
  <2> QED
    BY <1>9, <2>1, <2>2, <2>3, <2>4
      DEF TypeOK, ThreadKill, count_kill, stageVars, runVars, countVars, workVars,
          ctrlVars
<1>10. ASSUME NEW w \in Workers, KillExit(w) PROVE TypeOK'
  <2>1. event_ref_' \in [AllStages -> Int]
    BY <1>10
      DEF TypeOK, KillExit, release_event, drop_reference, DisconnectWaiters, AllStages,
          ControlInv, WorkerControl
  <2>2. cpc' \in [Controllers -> ControllerPC]
    BY <1>10
      DEF TypeOK, ControllerPC, KillExit, release_event, drop_reference,
          DisconnectWaiters, ControlInv, WorkerControl
  <2>3. serving' \in [Workers -> AllStages \cup {None}]
    BY <1>10
      DEF TypeOK, KillExit, release_event, drop_reference, DisconnectWaiters, AllStages,
          ControlInv, WorkerControl
  <2>4. ev' \in [Workers -> Events \cup {KillEvent, None}]
    BY <1>10
      DEF TypeOK, KillExit, release_event, drop_reference, DisconnectWaiters, AllStages,
          ControlInv, WorkerControl
  <2>5. wpc' \in [Workers -> WorkerPC]
    BY <1>10
      DEF TypeOK, WorkerPC, KillExit, release_event, drop_reference, DisconnectWaiters,
          ControlInv, WorkerControl
  <2> QED
    BY <1>10, <2>1, <2>2, <2>3, <2>4, <2>5
      DEF TypeOK, KillExit, stageVars, runVars, countVars, workVars, ctrlVars
<1>11. ASSUME NEW c \in Controllers, ConnectSchedule(c) PROVE TypeOK'
  <2>1. wpc' \in [Workers -> WorkerPC]
    BY <1>11
      DEF TypeOK, WorkerPC, ConnectSchedule, schedule_backlog, schedule, push_stage,
          signal_run, Idle, ControlInv, ControllerControl
  <2>2. run_queue_' \in Seq(AllStages)
    BY <1>11
      DEF TypeOK, ConnectSchedule, schedule_backlog, schedule, push_stage, signal_run,
          Idle, AllStages, ControlInv, ControllerControl
  <2>3. backlog' \in [Controllers -> Nat]
    BY <1>11
      DEF TypeOK, ConnectSchedule, schedule_backlog, schedule, push_stage, signal_run,
          Idle, ControlInv, ControllerControl
  <2> QED
    BY <1>11, <2>1, <2>2, <2>3
      DEF TypeOK, ConnectSchedule, schedule_backlog, push_stage, stageVars, runVars,
          countVars, workVars, ctrlVars
<1>12. ASSUME NEW c \in Controllers, ConnectReturn(c) PROVE TypeOK'
  <2>1. cpc' \in [Controllers -> ControllerPC]
    BY <1>12 DEF TypeOK, ControllerPC, ConnectReturn
  <2>2. target' \in [Controllers -> AllStages \cup {None}]
    BY <1>12 DEF TypeOK, ConnectReturn, AllStages
  <2> QED
    BY <1>12, <2>1, <2>2
      DEF TypeOK, ConnectReturn, stageVars, runVars, countVars, workVars, ctrlVars
<1>13. ASSUME NEW c \in Controllers, DisconnectResume(c) PROVE TypeOK'
  <2>1. cpc' \in [Controllers -> ControllerPC]
    BY <1>13
      DEF TypeOK, ControllerPC, DisconnectResume, wait_or_finish, wait_if, ControlInv,
          ControllerControl, stageVars, runVars, countVars, workVars, ctrlVars
  <2>2. target' \in [Controllers -> AllStages \cup {None}]
    BY <1>13
      DEF TypeOK, DisconnectResume, wait_or_finish, wait_if, AllStages, ControlInv,
          ControllerControl, stageVars, runVars, countVars, workVars, ctrlVars
  <2>3. th_pool_' \in [AllStages -> BOOLEAN]
    BY <1>13
      DEF TypeOK, DisconnectResume, wait_or_finish, wait_if, AllStages, ControlInv,
          ControllerControl, stageVars, runVars, countVars, workVars, ctrlVars
  <2>4. thread_mutex_' \in Controllers \cup {None}
    BY <1>13
      DEF TypeOK, DisconnectResume, wait_or_finish, wait_if, ControlInv,
          ControllerControl, stageVars, runVars, countVars, workVars, ctrlVars
  <2> QED
    BY <1>13, <2>1, <2>2, <2>3, <2>4
      DEF TypeOK, DisconnectResume, stageVars, runVars, countVars, workVars, ctrlVars
<1>14. ASSUME NEW c \in Controllers, GenKillEvent(c) PROVE TypeOK'
  <2>1. event_list_' \in [AllStages -> Seq(Events \cup {KillEvent})]
    BY <1>14 DEF TypeOK, GenKillEvent, add_event, AllStages
  <2>2. event_ref_' \in [AllStages -> Int]
    BY <1>14 DEF TypeOK, GenKillEvent, add_event, AllStages
  <2>3. adding' \in [Threads -> AllStages \cup {None}]
    <3>1. adding' = adding \/ adding' = [adding EXCEPT ![c] = Killer]
      BY <1>14 DEF GenKillEvent, add_event
    <3> QED
      BY <3>1 DEF TypeOK, AllStages, Threads
  <2>4. gen' \in [Controllers -> Nat]
    BY <1>14 DEF TypeOK, GenKillEvent, add_event
  <2> QED
    BY <1>14, <2>1, <2>2, <2>3, <2>4
      DEF TypeOK, GenKillEvent, stageVars, runVars, countVars, workVars, ctrlVars
<1>15. ASSUME NEW c \in Controllers, KillWait(c) PROVE TypeOK'
  <2>1. threads_to_kill_' \in Int
    BY <1>15 DEF TypeOK, KillWait, begin_kill_wait
  <2>2. thread_mutex_' \in Controllers \cup {None}
    BY <1>15 DEF TypeOK, KillWait, begin_kill_wait
  <2>3. cpc' \in [Controllers -> ControllerPC]
    BY <1>15 DEF TypeOK, ControllerPC, KillWait, begin_kill_wait
  <2>4. target' \in [Controllers -> AllStages \cup {None}]
    BY <1>15 DEF TypeOK, KillWait, begin_kill_wait, AllStages
  <2> QED
    BY <1>15, <2>1, <2>2, <2>3, <2>4
      DEF TypeOK, KillWait, begin_kill_wait, stageVars, runVars, countVars, workVars,
          ctrlVars
<1>16. ASSUME NEW c \in Controllers, KillResume(c) PROVE TypeOK'
  <2>1. connected_' \in [AllStages -> BOOLEAN]
    BY <1>16
      DEF TypeOK, KillResume, begin_disconnect, wait_or_finish, wait_if, AllStages,
          stageVars, runVars, countVars, workVars, ctrlVars
  <2>2. cpc' \in [Controllers -> ControllerPC]
    <3>1. \E x \in {"dwait", "ready"} : cpc' = [cpc EXCEPT ![c] = x]
      BY <1>16 DEF KillResume, begin_disconnect, wait_or_finish, wait_if
    <3> QED
      BY <3>1 DEF TypeOK, ControllerPC
  <2>3. target' \in [Controllers -> AllStages \cup {None}]
    BY <1>16
      DEF TypeOK, KillResume, begin_disconnect, wait_or_finish, wait_if, AllStages,
          stageVars, runVars, countVars, workVars, ctrlVars
  <2>4. th_pool_' \in [AllStages -> BOOLEAN]
    BY <1>16
      DEF TypeOK, KillResume, begin_disconnect, wait_or_finish, wait_if, AllStages,
          stageVars, runVars, countVars, workVars, ctrlVars
  <2>5. thread_mutex_' \in Controllers \cup {None}
    BY <1>16
      DEF TypeOK, KillResume, begin_disconnect, wait_or_finish, wait_if, stageVars,
          runVars, countVars, workVars, ctrlVars
  <2> QED
    BY <1>16, <2>1, <2>2, <2>3, <2>4, <2>5
      DEF TypeOK, KillResume, stageVars, runVars, countVars, workVars, ctrlVars
<1>17. ASSUME NEW c \in Controllers, NEW s \in Stages, SetPool(c, s) PROVE TypeOK'
  <2>1. th_pool_' \in [AllStages -> BOOLEAN]
    BY <1>17 DEF TypeOK, SetPool, AllStages
  <2> QED
    BY <1>17, <2>1
      DEF TypeOK, SetPool, stageVars, runVars, countVars, workVars, ctrlVars
<1>18. ASSUME NEW c \in Controllers, NEW s \in Stages, Connect(c, s) PROVE TypeOK'
  <2>1. backlog' \in [Controllers -> Nat]
    BY <1>18 DEF TypeOK, Connect, begin_connect, connect_with
  <2>2. event_ref_' \in [AllStages -> Int]
    BY <1>18 DEF TypeOK, Connect, begin_connect, connect_with, AllStages
  <2>3. connected_' \in [AllStages -> BOOLEAN]
    BY <1>18 DEF TypeOK, Connect, begin_connect, connect_with, AllStages
  <2>4. target' \in [Controllers -> AllStages \cup {None}]
    BY <1>18 DEF TypeOK, Connect, begin_connect, connect_with, AllStages
  <2>5. cpc' \in [Controllers -> ControllerPC]
    BY <1>18 DEF TypeOK, ControllerPC, Connect, begin_connect, connect_with
  <2> QED
    BY <1>18, <2>1, <2>2, <2>3, <2>4, <2>5
      DEF TypeOK, Connect, stageVars, runVars, countVars, workVars, ctrlVars
<1>19. ASSUME NEW c \in Controllers, NEW s \in Stages, Disconnect(c, s) PROVE TypeOK'
  <2>1. connected_' \in [AllStages -> BOOLEAN]
    BY <1>19
      DEF TypeOK, Disconnect, begin_disconnect, wait_or_finish, wait_if, AllStages,
          stageVars, runVars, countVars, workVars, ctrlVars
  <2>2. cpc' \in [Controllers -> ControllerPC]
    <3>1. \E x \in {"dwait", "ready"} : cpc' = [cpc EXCEPT ![c] = x]
      BY <1>19 DEF Disconnect, begin_disconnect, wait_or_finish, wait_if
    <3> QED
      BY <3>1 DEF TypeOK, ControllerPC
  <2>3. target' \in [Controllers -> AllStages \cup {None}]
    BY <1>19
      DEF TypeOK, Disconnect, begin_disconnect, wait_or_finish, wait_if, AllStages,
          stageVars, runVars, countVars, workVars, ctrlVars
  <2>4. th_pool_' \in [AllStages -> BOOLEAN]
    BY <1>19
      DEF TypeOK, Disconnect, begin_disconnect, wait_or_finish, wait_if, AllStages,
          stageVars, runVars, countVars, workVars, ctrlVars
  <2> QED
    BY <1>19, <2>1, <2>2, <2>3, <2>4
      DEF TypeOK, Disconnect, stageVars, runVars, countVars, workVars, ctrlVars
<1>20. ASSUME NEW c \in Controllers, NEW n \in AddSizes, AddThreads(c, n) PROVE TypeOK'
  <2>1. wpc' \in [Workers -> WorkerPC]
    BY <1>20 DEF TypeOK, WorkerPC, AddThreads
  <2>2. nthreads_' \in Int
    BY <1>20, ThreadAssumption, FS_Subset, FS_CardinalityType DEF TypeOK, AddThreads
  <2> QED
    BY <1>20, <2>1, <2>2
      DEF TypeOK, AddThreads, stageVars, runVars, countVars, workVars, ctrlVars
<1>21. ASSUME NEW c \in Controllers, NEW n \in KillSizes, KillThreads(c, n)
      PROVE  TypeOK'
  <2>1. cpc' \in [Controllers -> ControllerPC]
    <3>1. \E x \in {"kgen", "aborted"} : cpc' = [cpc EXCEPT ![c] = x]
      BY <1>21 DEF KillThreads
    <3> QED
      BY <3>1 DEF TypeOK, ControllerPC
  <2>2. thread_mutex_' \in Controllers \cup {None}
    BY <1>21
      DEF TypeOK, KillThreads, begin_connect, connect_with, stageVars, runVars,
          countVars, workVars, ctrlVars
  <2>3. th_pool_' \in [AllStages -> BOOLEAN]
    BY <1>21
      DEF TypeOK, KillThreads, begin_connect, connect_with, AllStages, stageVars,
          runVars, countVars, workVars, ctrlVars
  <2>4. backlog' \in [Controllers -> Nat]
    <3>1. backlog' = backlog \/ backlog' = [backlog EXCEPT ![c] = Len(event_list_[Killer])]
      BY <1>21 DEF KillThreads, begin_connect, connect_with
    <3>2. Len(event_list_[Killer]) \in Nat
      BY DEF TypeOK, AllStages
    <3> QED
      BY <3>1, <3>2 DEF TypeOK
  <2>5. event_ref_' \in [AllStages -> Int]
    BY <1>21
      DEF TypeOK, KillThreads, begin_connect, connect_with, AllStages, stageVars,
          runVars, countVars, workVars, ctrlVars
  <2>6. connected_' \in [AllStages -> BOOLEAN]
    BY <1>21
      DEF TypeOK, KillThreads, begin_connect, connect_with, AllStages, stageVars,
          runVars, countVars, workVars, ctrlVars
  <2>7. target' \in [Controllers -> AllStages \cup {None}]
    BY <1>21
      DEF TypeOK, KillThreads, begin_connect, connect_with, AllStages, stageVars,
          runVars, countVars, workVars, ctrlVars
  <2>8. gen' \in [Controllers -> Nat]
    <3>1. \E i \in {n, nthreads_} : gen' = gen \/ gen' = [gen EXCEPT ![c] = i]
      BY <1>21 DEF KillThreads
    <3>2. n \in Nat /\ nthreads_ \in Nat /\ gen \in [Controllers -> Nat]
      BY SizeAssumption DEF TypeOK
    <3> QED
      BY <3>1, <3>2
  <2>9. kills' \in [Controllers -> Nat]
    <3>1. \E i \in {n, nthreads_} : kills' = kills \/ kills' = [kills EXCEPT ![c] = i]
      BY <1>21 DEF KillThreads
    <3>2. n \in Nat /\ nthreads_ \in Nat /\ kills \in [Controllers -> Nat]
      BY SizeAssumption DEF TypeOK
    <3> QED
      BY <3>1, <3>2
  <2> QED
    BY <1>21, <2>1, <2>2, <2>3, <2>4, <2>5, <2>6, <2>7, <2>8, <2>9
      DEF TypeOK, KillThreads, stageVars, runVars, countVars, workVars, ctrlVars
<1>22. ASSUME NEW w \in Workers, SpuriousRun(w) PROVE TypeOK'
  <2>1. wpc' \in [Workers -> WorkerPC]
    BY <1>22 DEF TypeOK, WorkerPC, SpuriousRun
  <2> QED
    BY <1>22, <2>1
      DEF TypeOK, SpuriousRun, stageVars, runVars, countVars, workVars, ctrlVars
<1>23. ASSUME NEW c \in Controllers, SpuriousController(c) PROVE TypeOK'
  <2>1. cpc' \in [Controllers -> ControllerPC]
    BY <1>23 DEF TypeOK, ControllerPC, SpuriousController
  <2> QED
    BY <1>23, <2>1
      DEF TypeOK, SpuriousController, stageVars, runVars, countVars, workVars, ctrlVars
<1>30. ASSUME UNCHANGED vars PROVE TypeOK'
  BY <1>30 DEF TypeOK, vars, stageVars, runVars, countVars, workVars, ctrlVars
<1> QED
  BY <1>1, <1>2, <1>3, <1>4, <1>5, <1>6, <1>7, <1>8, <1>9, <1>10, <1>11, <1>12, <1>13,
     <1>14, <1>15, <1>16, <1>17, <1>18, <1>19, <1>20, <1>21, <1>22, <1>23, <1>30
    DEF Next, WorkerStep, ControllerStep, ControllerCall

-----------------------------------------------------------------------------
(* run_thread() keeps the worker's registers in step with its control point. *)
LEMMA WorkerControlStep ==
  ASSUME TypeOK, ControlInv, [Next]_vars
  PROVE  WorkerControl'
<1>0. UNCHANGED <<wpc, serving, ev, adding>> => WorkerControl'
  BY DEF ControlInv, WorkerControl
<1>1. ASSUME NEW t \in Threads, Schedule(t)
      PROVE  WorkerControl'
  BY <1>1, ThreadAssumption, StageAssumption
    DEF TypeOK, ControlInv, WorkerControl, AllStages, Threads, Schedule, schedule,
        push_stage, signal_run, Idle, workVars
<1>2. ASSUME NEW p \in Producers, NEW s \in Stages, NEW e \in Events, ProducerAdd(p, s,
             e)
      PROVE  WorkerControl'
  BY <1>2, ThreadAssumption, StageAssumption
    DEF TypeOK, ControlInv, WorkerControl, AllStages, Threads, ProducerAdd, add_event,
        workVars
<1>3. ASSUME NEW w \in Workers, WorkerWait(w)
      PROVE  WorkerControl'
  BY <1>3, ThreadAssumption, StageAssumption
    DEF TypeOK, ControlInv, WorkerControl, AllStages, Threads, WorkerWait, Woken,
        workVars
<1>4. ASSUME NEW w \in Workers, WorkerPop(w)
      PROVE  WorkerControl'
  BY <1>4, ThreadAssumption, StageAssumption
    DEF TypeOK, ControlInv, WorkerControl, AllStages, Threads, WorkerPop, pop_stage,
        Woken, workVars
<1>5. ASSUME NEW w \in Workers, RemoveEvent(w)
      PROVE  WorkerControl'
  <2>1. serving[w] \in AllStages /\ wpc[w] = "popped"
    BY <1>5 DEF TypeOK, ControlInv, WorkerControl, RemoveEvent, dispatch
  <2>2. serving[w] \in Stages => Head(event_list_[serving[w]]) \in Events
    BY <1>5, <2>1 DEF ControlInv, QueueControl, RemoveEvent, dispatch
  <2>3. serving' = serving /\ adding' = adding
    BY <1>5 DEF RemoveEvent, dispatch
  <2>4. /\ ev' = [ev EXCEPT ![w] = Head(event_list_[serving[w]])]
        /\ wpc' = [wpc EXCEPT ![w] = IF serving[w] = Killer THEN "kill" ELSE "handle"]
    BY <1>5 DEF RemoveEvent, dispatch, queue_of
  <2> QED
    BY <2>1, <2>2, <2>3, <2>4, StageAssumption
    DEF TypeOK, ControlInv, WorkerControl, AllStages
<1>6. ASSUME NEW w \in Workers, HandleDone(w)
      PROVE  WorkerControl'
  BY <1>6, ThreadAssumption, StageAssumption
    DEF TypeOK, ControlInv, WorkerControl, AllStages, Threads, HandleDone, workVars
<1>7. ASSUME NEW w \in Workers, NEW s \in Stages, HandleForward(w, s)
      PROVE  WorkerControl'
  BY <1>7, ThreadAssumption, StageAssumption
    DEF TypeOK, ControlInv, WorkerControl, AllStages, Threads, HandleForward, add_event,
        workVars
<1>8. ASSUME NEW w \in Workers, ReleaseEvent(w)
      PROVE  WorkerControl'
  BY <1>8, ThreadAssumption, StageAssumption
    DEF TypeOK, ControlInv, WorkerControl, AllStages, Threads, ReleaseEvent,
        release_event, drop_reference, DisconnectWaiters, workVars
<1>9. ASSUME NEW w \in Workers, ThreadKill(w)
      PROVE  WorkerControl'
  BY <1>9, ThreadAssumption, StageAssumption
    DEF TypeOK, ControlInv, WorkerControl, AllStages, Threads, ThreadKill, count_kill,
        KillWaiters, workVars
<1>10. ASSUME NEW w \in Workers, KillExit(w)
      PROVE  WorkerControl'
  BY <1>10, ThreadAssumption, StageAssumption
    DEF TypeOK, ControlInv, WorkerControl, AllStages, Threads, KillExit, release_event,
        drop_reference, DisconnectWaiters
<1>11. ASSUME NEW c \in Controllers, ConnectSchedule(c)
      PROVE  WorkerControl'
  BY <1>11, ThreadAssumption, StageAssumption
    DEF TypeOK, ControlInv, WorkerControl, AllStages, Threads, ConnectSchedule,
        schedule_backlog, schedule, push_stage, signal_run, Idle, workVars
<1>12. ASSUME NEW c \in Controllers, GenKillEvent(c)
      PROVE  WorkerControl'
  BY <1>12, ThreadAssumption, StageAssumption
    DEF TypeOK, ControlInv, WorkerControl, AllStages, Threads, GenKillEvent, add_event,
        workVars
<1>13. ASSUME NEW c \in Controllers, NEW n \in AddSizes, AddThreads(c, n)
      PROVE  WorkerControl'
  BY <1>13, ThreadAssumption, StageAssumption
    DEF TypeOK, ControlInv, WorkerControl, AllStages, Threads, AddThreads, workVars
<1>14. ASSUME NEW w \in Workers, SpuriousRun(w)
      PROVE  WorkerControl'
  BY <1>14, ThreadAssumption, StageAssumption
    DEF TypeOK, ControlInv, WorkerControl, AllStages, Threads, SpuriousRun, workVars
<1>15. ASSUME NEW c \in Controllers,
             ConnectReturn(c) \/ DisconnectResume(c) \/ KillWait(c) \/
             KillResume(c) \/ SpuriousController(c)
      PROVE  WorkerControl'
  BY <1>0, <1>15
    DEF ConnectReturn, DisconnectResume, KillWait, begin_kill_wait, KillResume,
        SpuriousController, workVars
<1>16. ASSUME NEW c \in Controllers, NEW s \in Stages,
             SetPool(c, s) \/ Connect(c, s) \/ Disconnect(c, s)
      PROVE  WorkerControl'
  BY <1>0, <1>16 DEF SetPool, Connect, Disconnect, workVars
<1>17. ASSUME NEW c \in Controllers, NEW n \in KillSizes,
             KillThreads(c, n)
      PROVE  WorkerControl'
  BY <1>0, <1>17 DEF KillThreads, workVars
<1>18. ASSUME UNCHANGED vars PROVE WorkerControl'
  BY <1>0, <1>18 DEF vars, workVars
<1> QED
  BY <1>1, <1>2, <1>3, <1>4, <1>5, <1>6, <1>7, <1>8, <1>9, <1>10, <1>11, <1>12, <1>13,
     <1>14, <1>15, <1>16, <1>17, <1>18
    DEF Next, WorkerStep, ControllerStep, ControllerCall

(* Events are added to the queue they belong to. *)
LEMMA QueueControlStep ==
  ASSUME TypeOK, ControlInv, [Next]_vars
  PROVE  QueueControl'
<1>0. UNCHANGED event_list_ => QueueControl'
  BY DEF ControlInv, QueueControl
<1>1. ASSUME NEW p \in Producers, NEW s \in Stages, NEW e \in Events, ProducerAdd(p, s,
             e)
      PROVE  QueueControl'
  BY <1>1, StageAssumption
    DEF TypeOK, ControlInv, WorkerControl, QueueControl, AllStages, ProducerAdd,
        add_event
<1>2. ASSUME NEW w \in Workers, RemoveEvent(w)
      PROVE  QueueControl'
  BY <1>2, StageAssumption
    DEF TypeOK, ControlInv, WorkerControl, QueueControl, AllStages, RemoveEvent,
        dispatch, queue_of
<1>3. ASSUME NEW w \in Workers, NEW s \in Stages, HandleForward(w, s)
      PROVE  QueueControl'
  BY <1>3, StageAssumption
    DEF TypeOK, ControlInv, WorkerControl, QueueControl, AllStages, HandleForward,
        add_event
<1>4. ASSUME NEW c \in Controllers, GenKillEvent(c)
      PROVE  QueueControl'
  BY <1>4, StageAssumption
    DEF TypeOK, ControlInv, WorkerControl, QueueControl, AllStages, GenKillEvent,
        add_event
<1>5. ASSUME NEW t \in Threads,
             Schedule(t)
      PROVE  QueueControl'
  BY <1>0, <1>5 DEF Schedule, stageVars
<1>6. ASSUME NEW w \in Workers,
             WorkerWait(w) \/ WorkerPop(w) \/ HandleDone(w) \/
             ReleaseEvent(w) \/ ThreadKill(w) \/ KillExit(w) \/
             SpuriousRun(w)
      PROVE  QueueControl'
  BY <1>0, <1>6
    DEF WorkerWait, WorkerPop, pop_stage, HandleDone, ReleaseEvent, ThreadKill,
        count_kill, KillExit, SpuriousRun, stageVars
<1>7. ASSUME NEW c \in Controllers,
             ConnectSchedule(c) \/ ConnectReturn(c) \/ DisconnectResume(c)
             \/ KillWait(c) \/ KillResume(c) \/ SpuriousController(c)
      PROVE  QueueControl'
  BY <1>0, <1>7
    DEF ConnectSchedule, schedule_backlog, ConnectReturn, DisconnectResume, KillWait,
        begin_kill_wait, KillResume, SpuriousController, stageVars
<1>8. ASSUME NEW c \in Controllers, NEW s \in Stages,
             SetPool(c, s) \/ Connect(c, s) \/ Disconnect(c, s)
      PROVE  QueueControl'
  BY <1>0, <1>8 DEF SetPool, Connect, Disconnect, stageVars
<1>9. ASSUME NEW c \in Controllers, NEW n \in AddSizes,
             AddThreads(c, n)
      PROVE  QueueControl'
  BY <1>0, <1>9 DEF AddThreads, stageVars
<1>10. ASSUME NEW c \in Controllers, NEW n \in KillSizes,
             KillThreads(c, n)
      PROVE  QueueControl'
  BY <1>0, <1>10 DEF KillThreads, stageVars
<1>11. ASSUME UNCHANGED vars PROVE QueueControl'
  BY <1>0, <1>11 DEF vars, stageVars
<1> QED
  BY <1>1, <1>2, <1>3, <1>4, <1>5, <1>6, <1>7, <1>8, <1>9, <1>10, <1>11
    DEF Next, WorkerStep, ControllerStep, ControllerCall

(* Who may be inside add_event(), and with which stage. *)
LEMMA AdderControlStep ==
  ASSUME TypeOK, ControlInv, [Next]_vars
  PROVE  AdderControl'
<1>0. UNCHANGED <<adding, cpc>> => AdderControl'
  BY DEF ControlInv, AdderControl
<1>1. ASSUME NEW t \in Threads, Schedule(t)
      PROVE  AdderControl'
  BY <1>1, ThreadAssumption, StageAssumption
    DEF TypeOK, ControlInv, AdderControl, ControllerControl, AllStages, Threads,
        Schedule, schedule, push_stage, signal_run, Idle, ctrlVars
<1>2. ASSUME NEW p \in Producers, NEW s \in Stages, NEW e \in Events, ProducerAdd(p, s,
             e)
      PROVE  AdderControl'
  <2>1. adding' = adding \/ adding' = [adding EXCEPT ![p] = s]
    BY <1>2 DEF ProducerAdd, add_event
  <2>2. cpc' = cpc
    BY <1>2 DEF ProducerAdd, ctrlVars
  <2>3. adding \in [Threads -> AllStages \cup {None}] /\ AdderControl
    BY DEF TypeOK, ControlInv
  <2>4. \A t \in Threads \ {p} : adding'[t] = adding[t]
    BY <2>1, <2>3
  <2>5. adding'[p] = adding[p] \/ adding'[p] = s
    BY <2>1, <2>3, ThreadKinds
  <2> QED
    BY <2>2, <2>3, <2>4, <2>5, ThreadKinds DEF AdderControl
<1>3. ASSUME NEW w \in Workers, NEW s \in Stages, HandleForward(w, s)
      PROVE  AdderControl'
  <2>1. adding' = adding \/ adding' = [adding EXCEPT ![w] = s]
    BY <1>3 DEF HandleForward, add_event
  <2>2. cpc' = cpc
    BY <1>3 DEF HandleForward, ctrlVars
  <2>3. adding \in [Threads -> AllStages \cup {None}] /\ AdderControl
    BY DEF TypeOK, ControlInv
  <2>4. \A t \in Threads \ {w} : adding'[t] = adding[t]
    BY <2>1, <2>3
  <2>5. adding'[w] = adding[w] \/ adding'[w] = s
    BY <2>1, <2>3, ThreadKinds
  <2> QED
    BY <2>2, <2>3, <2>4, <2>5, ThreadKinds DEF AdderControl
<1>4. ASSUME NEW w \in Workers, ReleaseEvent(w)
      PROVE  AdderControl'
  BY <1>4, ThreadAssumption, StageAssumption
    DEF TypeOK, ControlInv, AdderControl, ControllerControl, AllStages, Threads,
        ReleaseEvent, release_event, drop_reference, DisconnectWaiters
<1>5. ASSUME NEW w \in Workers, ThreadKill(w)
      PROVE  AdderControl'
  BY <1>5, ThreadAssumption, StageAssumption
    DEF TypeOK, ControlInv, AdderControl, ControllerControl, AllStages, Threads,
        ThreadKill, count_kill, KillWaiters
<1>6. ASSUME NEW w \in Workers, KillExit(w)
      PROVE  AdderControl'
  BY <1>6, ThreadAssumption, StageAssumption
    DEF TypeOK, ControlInv, AdderControl, ControllerControl, AllStages, Threads,
        KillExit, release_event, drop_reference, DisconnectWaiters
<1>7. ASSUME NEW c \in Controllers, ConnectReturn(c)
      PROVE  AdderControl'
  BY <1>7, ThreadAssumption, StageAssumption
    DEF TypeOK, ControlInv, AdderControl, ControllerControl, AllStages, Threads,
        ConnectReturn
<1>8. ASSUME NEW c \in Controllers, DisconnectResume(c)
      PROVE  AdderControl'
  BY <1>8, ThreadAssumption, StageAssumption
    DEF TypeOK, ControlInv, AdderControl, ControllerControl, AllStages, Threads,
        DisconnectResume, wait_or_finish, wait_if
<1>9. ASSUME NEW c \in Controllers, GenKillEvent(c)
      PROVE  AdderControl'
  <2>1. adding' = adding \/ adding' = [adding EXCEPT ![c] = Killer]
    BY <1>9 DEF GenKillEvent, add_event
  <2>2. cpc' = cpc /\ cpc[c] = "kgen"
    BY <1>9 DEF GenKillEvent, ctrlVars
  <2> QED
    BY <2>1, <2>2, ThreadKinds DEF TypeOK, ControlInv, AdderControl
<1>10. ASSUME NEW c \in Controllers, KillWait(c)
      PROVE  AdderControl'
  BY <1>10, ThreadAssumption, StageAssumption
    DEF TypeOK, ControlInv, AdderControl, ControllerControl, AllStages, Threads,
        KillWait, begin_kill_wait
<1>11. ASSUME NEW c \in Controllers, KillResume(c)
      PROVE  AdderControl'
  BY <1>11, ThreadAssumption, StageAssumption
    DEF TypeOK, ControlInv, AdderControl, ControllerControl, AllStages, Threads,
        KillResume, begin_disconnect, wait_or_finish, wait_if
<1>12. ASSUME NEW c \in Controllers, NEW s \in Stages, Connect(c, s)
      PROVE  AdderControl'
  BY <1>12, ThreadAssumption, StageAssumption
    DEF TypeOK, ControlInv, AdderControl, ControllerControl, AllStages, Threads,
        Connect, begin_connect, connect_with
<1>13. ASSUME NEW c \in Controllers, NEW s \in Stages, Disconnect(c, s)
      PROVE  AdderControl'
  BY <1>13, ThreadAssumption, StageAssumption
    DEF TypeOK, ControlInv, AdderControl, ControllerControl, AllStages, Threads,
        Disconnect, begin_disconnect, wait_or_finish, wait_if
<1>14. ASSUME NEW c \in Controllers, NEW n \in KillSizes, KillThreads(c, n)
      PROVE  AdderControl'
  BY <1>14, ThreadAssumption, StageAssumption
    DEF TypeOK, ControlInv, AdderControl, ControllerControl, AllStages, Threads,
        KillThreads, begin_connect, connect_with
<1>15. ASSUME NEW c \in Controllers, SpuriousController(c)
      PROVE  AdderControl'
  BY <1>15, ThreadAssumption, StageAssumption
    DEF TypeOK, ControlInv, AdderControl, ControllerControl, AllStages, Threads,
        SpuriousController
<1>16. ASSUME NEW w \in Workers,
             WorkerWait(w) \/ WorkerPop(w) \/ RemoveEvent(w) \/
             HandleDone(w) \/ SpuriousRun(w)
      PROVE  AdderControl'
  BY <1>0, <1>16
    DEF WorkerWait, WorkerPop, pop_stage, RemoveEvent, dispatch, HandleDone,
        SpuriousRun, ctrlVars
<1>17. ASSUME NEW c \in Controllers,
             ConnectSchedule(c)
      PROVE  AdderControl'
  BY <1>0, <1>17 DEF ConnectSchedule, schedule_backlog, ctrlVars
<1>18. ASSUME NEW c \in Controllers, NEW s \in Stages,
             SetPool(c, s)
      PROVE  AdderControl'
  BY <1>0, <1>18 DEF SetPool, ctrlVars
<1>19. ASSUME NEW c \in Controllers, NEW n \in AddSizes,
             AddThreads(c, n)
      PROVE  AdderControl'
  BY <1>0, <1>19 DEF AddThreads, ctrlVars
<1>20. ASSUME UNCHANGED vars PROVE AdderControl'
  BY <1>0, <1>20 DEF vars, ctrlVars
<1> QED
  BY <1>1, <1>2, <1>3, <1>4, <1>5, <1>6, <1>7, <1>8, <1>9, <1>10, <1>11, <1>12, <1>13,
     <1>14, <1>15, <1>16, <1>17, <1>18, <1>19, <1>20
    DEF Next, WorkerStep, ControllerStep, ControllerCall

(* A controller that takes a stage nobody owns becomes its owner. *)
LEMMA TakesTarget ==
  ASSUME TypeOK, ControllerControl, NEW c \in Controllers, NEW s \in AllStages,
         ~Owned(s), NEW x \in {"connect", "dwait", "kgen"},
         x = "connect" => s \in Stages, x = "kgen" => s = Killer,
         x = "dwait" => ~(backlog'[c] > 0),
         cpc' = [cpc EXCEPT ![c] = x], target' = [target EXCEPT ![c] = s],
         \A d \in Controllers \ {c} : backlog'[d] = backlog[d]
  PROVE  ControllerControl'
<1>1. cpc'[c] = x /\ target'[c] = s /\ s # None
  BY StageAssumption DEF TypeOK
<1>2. \A d \in Controllers \ {c} : cpc'[d] = cpc[d] /\ target'[d] = target[d]
  BY DEF TypeOK
<1>3. \A d \in Controllers : target[d] # s
  BY DEF Owned
<1>4. \A d, f \in Controllers : target'[d] # None /\ target'[d] = target'[f] => d = f
  BY <1>1, <1>2, <1>3 DEF ControllerControl
<1> QED
  BY <1>1, <1>2, <1>4 DEF ControllerControl

(* connect() and disconnect() have one owner per stage. *)
LEMMA ControllerControlStep ==
  ASSUME TypeOK, ControlInv, [Next]_vars
  PROVE  ControllerControl'
<1>0. UNCHANGED <<target, cpc, backlog>> => ControllerControl'
  BY DEF ControlInv, ControllerControl
<1>1. ASSUME NEW w \in Workers, ReleaseEvent(w)
      PROVE  ControllerControl'
  BY <1>1, StageAssumption
    DEF TypeOK, ControlInv, ControllerControl, AllStages, MutexControl, Owned,
        ReleaseEvent, release_event, drop_reference, DisconnectWaiters, ctrlVars
<1>2. ASSUME NEW w \in Workers, ThreadKill(w)
      PROVE  ControllerControl'
  BY <1>2, StageAssumption
    DEF TypeOK, ControlInv, ControllerControl, AllStages, MutexControl, Owned,
        ThreadKill, count_kill, KillWaiters, ctrlVars
<1>3. ASSUME NEW w \in Workers, KillExit(w)
      PROVE  ControllerControl'
  BY <1>3, StageAssumption
    DEF TypeOK, ControlInv, ControllerControl, AllStages, MutexControl, Owned, KillExit,
        release_event, drop_reference, DisconnectWaiters, ctrlVars
<1>4. ASSUME NEW c \in Controllers, ConnectSchedule(c)
      PROVE  ControllerControl'
  BY <1>4, StageAssumption
    DEF TypeOK, ControlInv, ControllerControl, AllStages, MutexControl, Owned,
        ConnectSchedule, schedule_backlog, schedule, push_stage, signal_run, Idle,
        ctrlVars
<1>5. ASSUME NEW c \in Controllers, ConnectReturn(c)
      PROVE  ControllerControl'
  BY <1>5, StageAssumption
    DEF TypeOK, ControlInv, ControllerControl, AllStages, MutexControl, Owned,
        ConnectReturn, ctrlVars
<1>6. ASSUME NEW c \in Controllers, DisconnectResume(c)
      PROVE  ControllerControl'
  <2>1. /\ cpc[c] = "dwoken"
        /\ target[c] \in AllStages
        /\ \/ Waits(c, target[c]) /\ thread_mutex_' = thread_mutex_
           \/ /\ Finishes(c, target[c])
              /\ thread_mutex_' = IF target[c] = Killer THEN None ELSE thread_mutex_
    BY <1>6, ResumeEffect DEF ControlInv
  <2>2. UNCHANGED <<connected_, event_ref_, backlog>>
    BY <1>6 DEF DisconnectResume
  <2>3. CASE Waits(c, target[c]) /\ thread_mutex_' = thread_mutex_
    BY <2>1, <2>2, <2>3, StageAssumption
      DEF Waits, TypeOK, ControlInv, ControllerControl, MutexControl, AllStages
  <2>4. CASE /\ Finishes(c, target[c])
             /\ thread_mutex_' = IF target[c] = Killer THEN None ELSE thread_mutex_
    BY <2>1, <2>2, <2>4, StageAssumption
      DEF Finishes, TypeOK, ControlInv, ControllerControl, MutexControl, AllStages
  <2> QED
    BY <2>1, <2>3, <2>4
<1>7. ASSUME NEW c \in Controllers, KillWait(c)
      PROVE  ControllerControl'
  BY <1>7, StageAssumption
    DEF TypeOK, ControlInv, ControllerControl, AllStages, MutexControl, Owned, KillWait,
        begin_kill_wait, ctrlVars
<1>8. ASSUME NEW c \in Controllers, KillResume(c)
      PROVE  ControllerControl'
  <2>1. cpc[c] = "kwoken" /\ thread_mutex_ = None
    BY <1>8 DEF KillResume
  <2>2. /\ connected_' = [connected_ EXCEPT ![Killer] = FALSE]
        /\ thread_mutex_' = IF event_ref_[Killer] > 0 THEN c ELSE None
        /\ UNCHANGED <<event_ref_, backlog>>
    BY <1>8 DEF KillResume, begin_disconnect
  <2>3. Waits(c, Killer) \/ Finishes(c, Killer)
    BY <1>8, DisconnectEffect DEF KillResume, begin_disconnect
  <2>4. CASE Waits(c, Killer)
    <3>1. ~Owned(Killer)
      BY <2>1, KillerFree DEF ControlInv, Owned
    <3>2. ~(backlog'[c] > 0)
      BY <2>1, <2>2 DEF ControlInv, ControllerControl
    <3> QED
      BY <2>2, <2>4, <3>1, <3>2, TakesTarget DEF Waits, ControlInv, AllStages
  <2>5. CASE Finishes(c, Killer)
    BY <2>1, <2>2, <2>5, StageAssumption
      DEF Finishes, TypeOK, ControlInv, ControllerControl, MutexControl, AllStages
  <2> QED
    BY <2>3, <2>4, <2>5
<1>9. ASSUME NEW c \in Controllers, NEW s \in Stages, Connect(c, s)
      PROVE  ControllerControl'
  <2>1. /\ ~Owned(s) /\ cpc' = [cpc EXCEPT ![c] = "connect"]
        /\ target' = [target EXCEPT ![c] = s]
        /\ backlog' = [backlog EXCEPT ![c] = Len(event_list_[s])]
    BY <1>9 DEF Connect, begin_connect, connect_with
  <2>2. s \in AllStages /\ \A d \in Controllers \ {c} : backlog'[d] = backlog[d]
    BY <2>1 DEF TypeOK, AllStages
  <2> QED
    BY <2>1, <2>2, TakesTarget DEF ControlInv
<1>10. ASSUME NEW c \in Controllers, NEW s \in Stages, Disconnect(c, s)
      PROVE  ControllerControl'
  <2>1. cpc[c] = "ready" /\ ~Owned(s) /\ connected_[s]
    BY <1>10 DEF Disconnect
  <2>2. /\ connected_' = [connected_ EXCEPT ![s] = FALSE]
        /\ UNCHANGED <<event_ref_, backlog, thread_mutex_>>
    BY <1>10 DEF Disconnect, begin_disconnect, countVars
  <2>3. Waits(c, s) \/ Finishes(c, s)
    BY <1>10, DisconnectEffect DEF Disconnect, begin_disconnect
  <2>4. CASE Waits(c, s)
    BY <2>1, <2>2, <2>4, StageAssumption
      DEF Waits, Owned, TypeOK, ControlInv, ControllerControl, MutexControl, AllStages
  <2>5. CASE Finishes(c, s)
    BY <2>1, <2>2, <2>5, StageAssumption
      DEF Finishes, Owned, TypeOK, ControlInv, ControllerControl, MutexControl,
          AllStages
  <2> QED
    BY <2>3, <2>4, <2>5
<1>11. ASSUME NEW c \in Controllers, NEW n \in KillSizes, KillThreads(c, n)
      PROVE  ControllerControl'
  <2>1. cpc[c] = "ready" /\ thread_mutex_ = None /\ (Starts(c) \/ Aborts(c))
    BY <1>11, KillThreadsEffect
  <2>2. CASE Starts(c)
    <3>1. ~Owned(Killer)
      BY <2>1, KillerFree DEF ControlInv, Owned
    <3>2. \A d \in Controllers \ {c} : backlog'[d] = backlog[d]
      BY <2>2 DEF Starts, TypeOK
    <3> QED
      BY <2>2, <3>1, <3>2, TakesTarget DEF Starts, ControlInv, AllStages
  <2>3. CASE Aborts(c)
    BY <2>1, <2>3, StageAssumption
      DEF Aborts, TypeOK, ControlInv, ControllerControl, MutexControl, AllStages
  <2> QED
    BY <2>1, <2>2, <2>3
<1>12. ASSUME NEW c \in Controllers, SpuriousController(c)
      PROVE  ControllerControl'
  BY <1>12, StageAssumption
    DEF TypeOK, ControlInv, ControllerControl, AllStages, MutexControl, Owned,
        SpuriousController, ctrlVars
<1>13. ASSUME NEW t \in Threads,
             Schedule(t)
      PROVE  ControllerControl'
  BY <1>0, <1>13 DEF Schedule, ctrlVars
<1>14. ASSUME NEW p \in Producers, NEW s \in Stages, NEW e \in Events,
             ProducerAdd(p, s, e)
      PROVE  ControllerControl'
  BY <1>0, <1>14 DEF ProducerAdd, ctrlVars
<1>15. ASSUME NEW w \in Workers,
             WorkerWait(w) \/ WorkerPop(w) \/ RemoveEvent(w) \/
             HandleDone(w) \/ SpuriousRun(w)
      PROVE  ControllerControl'
  BY <1>0, <1>15
    DEF WorkerWait, WorkerPop, pop_stage, RemoveEvent, dispatch, HandleDone,
        SpuriousRun, ctrlVars
<1>16. ASSUME NEW w \in Workers, NEW s \in Stages,
             HandleForward(w, s)
      PROVE  ControllerControl'
  BY <1>0, <1>16 DEF HandleForward, ctrlVars
<1>17. ASSUME NEW c \in Controllers,
             GenKillEvent(c)
      PROVE  ControllerControl'
  BY <1>0, <1>17 DEF GenKillEvent, ctrlVars
<1>18. ASSUME NEW c \in Controllers, NEW s \in Stages,
             SetPool(c, s)
      PROVE  ControllerControl'
  BY <1>0, <1>18 DEF SetPool, ctrlVars
<1>19. ASSUME NEW c \in Controllers, NEW n \in AddSizes,
             AddThreads(c, n)
      PROVE  ControllerControl'
  BY <1>0, <1>19 DEF AddThreads, ctrlVars
<1>20. ASSUME UNCHANGED vars PROVE ControllerControl'
  BY <1>0, <1>20 DEF vars, ctrlVars
<1> QED
  BY <1>1, <1>2, <1>3, <1>4, <1>5, <1>6, <1>7, <1>8, <1>9, <1>10, <1>11, <1>12, <1>13,
     <1>14, <1>15, <1>16, <1>17, <1>18, <1>19, <1>20
    DEF Next, WorkerStep, ControllerStep, ControllerCall

(* thread_mutex_ is held exactly in the two stretches of kill_threads(). *)
LEMMA MutexControlStep ==
  ASSUME TypeOK, ControlInv, [Next]_vars
  PROVE  MutexControl'
<1>0. UNCHANGED <<thread_mutex_, cpc, target>> => MutexControl'
  BY DEF ControlInv, MutexControl
<1>1. ASSUME NEW w \in Workers, ReleaseEvent(w)
      PROVE  MutexControl'
  BY <1>1, ThreadAssumption, StageAssumption
    DEF TypeOK, ControlInv, ControllerControl, MutexControl, AllStages, ReleaseEvent,
        release_event, drop_reference, DisconnectWaiters, countVars, ctrlVars
<1>2. ASSUME NEW w \in Workers, ThreadKill(w)
      PROVE  MutexControl'
  BY <1>2, ThreadAssumption, StageAssumption
    DEF TypeOK, ControlInv, ControllerControl, MutexControl, AllStages, ThreadKill,
        count_kill, KillWaiters, countVars, ctrlVars
<1>3. ASSUME NEW w \in Workers, KillExit(w)
      PROVE  MutexControl'
  BY <1>3, ThreadAssumption, StageAssumption
    DEF TypeOK, ControlInv, ControllerControl, MutexControl, AllStages, KillExit,
        release_event, drop_reference, DisconnectWaiters, countVars, ctrlVars
<1>4. ASSUME NEW c \in Controllers, ConnectReturn(c)
      PROVE  MutexControl'
  BY <1>4, ThreadAssumption, StageAssumption
    DEF TypeOK, ControlInv, ControllerControl, MutexControl, AllStages, ConnectReturn,
        countVars
<1>5. ASSUME NEW c \in Controllers, DisconnectResume(c)
      PROVE  MutexControl'
  <2>1. /\ cpc[c] = "dwoken"
        /\ target[c] \in AllStages
        /\ \/ Waits(c, target[c]) /\ thread_mutex_' = thread_mutex_
           \/ /\ Finishes(c, target[c])
              /\ thread_mutex_' = IF target[c] = Killer THEN None ELSE thread_mutex_
    BY <1>5, ResumeEffect DEF ControlInv
  <2>2. UNCHANGED <<connected_, event_ref_, backlog>>
    BY <1>5 DEF DisconnectResume
  <2>3. CASE Waits(c, target[c]) /\ thread_mutex_' = thread_mutex_
    BY <2>1, <2>2, <2>3, ThreadKinds, StageAssumption
      DEF Waits, TypeOK, ControlInv, ControllerControl, MutexControl
  <2>4. CASE /\ Finishes(c, target[c])
             /\ thread_mutex_' = IF target[c] = Killer THEN None ELSE thread_mutex_
    BY <2>1, <2>2, <2>4, ThreadKinds, StageAssumption
      DEF Finishes, TypeOK, ControlInv, ControllerControl, MutexControl
  <2> QED
    BY <2>1, <2>3, <2>4
<1>6. ASSUME NEW c \in Controllers, KillWait(c)
      PROVE  MutexControl'
  <2>1. /\ cpc[c] = "kgen" /\ backlog[c] = 0
        /\ cpc' = [cpc EXCEPT ![c] = "kwait"]
        /\ target' = [target EXCEPT ![c] = None]
        /\ thread_mutex_' = None
        /\ UNCHANGED <<connected_, backlog, th_pool_, event_ref_>>
    BY <1>6 DEF KillWait, begin_kill_wait, stageVars
  <2> QED
    BY <2>1, ThreadKinds, StageAssumption
      DEF TypeOK, ControlInv, ControllerControl, MutexControl
<1>7. ASSUME NEW c \in Controllers, KillResume(c)
      PROVE  MutexControl'
  <2>1. cpc[c] = "kwoken" /\ thread_mutex_ = None
    BY <1>7 DEF KillResume
  <2>2. /\ connected_' = [connected_ EXCEPT ![Killer] = FALSE]
        /\ thread_mutex_' = IF event_ref_[Killer] > 0 THEN c ELSE None
        /\ UNCHANGED <<event_ref_, backlog>>
    BY <1>7 DEF KillResume, begin_disconnect
  <2>3. Waits(c, Killer) \/ Finishes(c, Killer)
    BY <1>7, DisconnectEffect DEF KillResume, begin_disconnect
  <2>4. CASE Waits(c, Killer)
    BY <2>1, <2>2, <2>4, KillerFree, ThreadKinds, StageAssumption
      DEF Waits, TypeOK, ControlInv, ControllerControl, MutexControl
  <2>5. CASE Finishes(c, Killer)
    BY <2>1, <2>2, <2>5, ThreadKinds, StageAssumption
      DEF Finishes, TypeOK, ControlInv, ControllerControl, MutexControl
  <2> QED
    BY <2>3, <2>4, <2>5
<1>8. ASSUME NEW c \in Controllers, NEW s \in Stages, Connect(c, s)
      PROVE  MutexControl'
  BY <1>8, ThreadAssumption, StageAssumption
    DEF TypeOK, ControlInv, ControllerControl, MutexControl, AllStages, Connect,
        begin_connect, connect_with, countVars
<1>9. ASSUME NEW c \in Controllers, NEW s \in Stages, Disconnect(c, s)
      PROVE  MutexControl'
  <2>1. cpc[c] = "ready" /\ ~Owned(s) /\ connected_[s]
    BY <1>9 DEF Disconnect
  <2>2. /\ connected_' = [connected_ EXCEPT ![s] = FALSE]
        /\ UNCHANGED <<event_ref_, backlog, thread_mutex_>>
    BY <1>9 DEF Disconnect, begin_disconnect, countVars
  <2>3. Waits(c, s) \/ Finishes(c, s)
    BY <1>9, DisconnectEffect DEF Disconnect, begin_disconnect
  <2>4. CASE Waits(c, s)
    BY <2>1, <2>2, <2>4, ThreadKinds, StageAssumption
      DEF Waits, Owned, TypeOK, ControlInv, ControllerControl, MutexControl
  <2>5. CASE Finishes(c, s)
    BY <2>1, <2>2, <2>5, ThreadKinds, StageAssumption
      DEF Finishes, Owned, TypeOK, ControlInv, ControllerControl, MutexControl
  <2> QED
    BY <2>3, <2>4, <2>5
<1>10. ASSUME NEW c \in Controllers, NEW n \in KillSizes, KillThreads(c, n)
      PROVE  MutexControl'
  <2>1. cpc[c] = "ready" /\ thread_mutex_ = None /\ (Starts(c) \/ Aborts(c))
    BY <1>10, KillThreadsEffect
  <2>2. CASE Starts(c)
    BY <2>1, <2>2, KillerFree, ThreadKinds, StageAssumption
      DEF Starts, TypeOK, ControlInv, ControllerControl, MutexControl
  <2>3. CASE Aborts(c)
    BY <2>1, <2>3, ThreadKinds, StageAssumption
      DEF Aborts, TypeOK, ControlInv, ControllerControl, MutexControl
  <2> QED
    BY <2>1, <2>2, <2>3
<1>11. ASSUME NEW c \in Controllers, SpuriousController(c)
      PROVE  MutexControl'
  <2>1. \/ cpc[c] = "dwait" /\ cpc' = [cpc EXCEPT ![c] = "dwoken"]
        \/ cpc[c] = "kwait" /\ cpc' = [cpc EXCEPT ![c] = "kwoken"]
    BY <1>11 DEF SpuriousController
  <2>2. UNCHANGED <<thread_mutex_, target>>
    BY <1>11 DEF SpuriousController, countVars
  <2> QED
    BY <2>1, <2>2 DEF TypeOK, ControlInv, MutexControl
<1>12. ASSUME NEW t \in Threads,
             Schedule(t)
      PROVE  MutexControl'
  BY <1>0, <1>12 DEF Schedule, countVars, ctrlVars
<1>13. ASSUME NEW p \in Producers, NEW s \in Stages, NEW e \in Events,
             ProducerAdd(p, s, e)
      PROVE  MutexControl'
  BY <1>0, <1>13 DEF ProducerAdd, countVars, ctrlVars
<1>14. ASSUME NEW w \in Workers,
             WorkerWait(w) \/ WorkerPop(w) \/ RemoveEvent(w) \/
             HandleDone(w) \/ SpuriousRun(w)
      PROVE  MutexControl'
  BY <1>0, <1>14
    DEF WorkerWait, WorkerPop, pop_stage, RemoveEvent, dispatch, HandleDone,
        SpuriousRun, countVars, ctrlVars
<1>15. ASSUME NEW w \in Workers, NEW s \in Stages,
             HandleForward(w, s)
      PROVE  MutexControl'
  BY <1>0, <1>15 DEF HandleForward, countVars, ctrlVars
<1>16. ASSUME NEW c \in Controllers,
             ConnectSchedule(c) \/ GenKillEvent(c)
      PROVE  MutexControl'
  BY <1>0, <1>16
    DEF ConnectSchedule, schedule_backlog, GenKillEvent, countVars, ctrlVars
<1>17. ASSUME NEW c \in Controllers, NEW s \in Stages,
             SetPool(c, s)
      PROVE  MutexControl'
  BY <1>0, <1>17 DEF SetPool, countVars, ctrlVars
<1>18. ASSUME NEW c \in Controllers, NEW n \in AddSizes,
             AddThreads(c, n)
      PROVE  MutexControl'
  BY <1>0, <1>18 DEF AddThreads, countVars, ctrlVars
<1>19. ASSUME UNCHANGED vars PROVE MutexControl'
  BY <1>0, <1>19 DEF vars, countVars, ctrlVars
<1> QED
  BY <1>1, <1>2, <1>3, <1>4, <1>5, <1>6, <1>7, <1>8, <1>9, <1>10, <1>11, <1>12, <1>13,
     <1>14, <1>15, <1>16, <1>17, <1>18, <1>19
    DEF Next, WorkerStep, ControllerStep, ControllerCall

(* killer_ is connected exactly during a kill transaction. *)
LEMMA KillerControlStep ==
  ASSUME TypeOK, ControlInv, [Next]_vars
  PROVE  KillerControl'
<1>0. UNCHANGED <<connected_, cpc>> => KillerControl'
  BY DEF ControlInv, KillerControl, InKill
<1>1. ASSUME NEW w \in Workers, ReleaseEvent(w)
      PROVE  KillerControl'
  <2>1. \/ cpc' = cpc
        \/ \E d \in Controllers :
             /\ cpc[d] = "dwait" /\ target[d] = serving[w]
             /\ cpc' = [cpc EXCEPT ![d] = "dwoken"]
    BY <1>1, ReleaseEffect DEF ReleaseEvent
  <2>2. connected_' = connected_ /\ KillerControl
    BY <1>1 DEF ReleaseEvent, countVars, ControlInv
  <2>3. \A c \in Controllers : InKill(c)' <=> InKill(c)
    BY <2>1 DEF InKill, TypeOK
  <2> QED
    BY <2>2, <2>3 DEF KillerControl
<1>2. ASSUME NEW w \in Workers, ThreadKill(w)
      PROVE  KillerControl'
  <2>1. \/ cpc' = cpc
        \/ \E d \in Controllers :
             cpc[d] = "kwait" /\ cpc' = [cpc EXCEPT ![d] = "kwoken"]
    BY <1>2, ThreadKillEffect
  <2>2. connected_' = connected_ /\ KillerControl
    BY <1>2 DEF ThreadKill, count_kill, stageVars, ControlInv
  <2>3. \A c \in Controllers : InKill(c)' <=> InKill(c)
    BY <2>1 DEF InKill, TypeOK
  <2> QED
    BY <2>2, <2>3 DEF KillerControl
<1>3. ASSUME NEW w \in Workers, KillExit(w)
      PROVE  KillerControl'
  <2>1. \/ cpc' = cpc
        \/ \E d \in Controllers :
             /\ cpc[d] = "dwait" /\ target[d] = serving[w]
             /\ cpc' = [cpc EXCEPT ![d] = "dwoken"]
    BY <1>3, ReleaseEffect DEF KillExit
  <2>2. connected_' = connected_ /\ KillerControl
    BY <1>3 DEF KillExit, countVars, ControlInv
  <2>3. \A c \in Controllers : InKill(c)' <=> InKill(c)
    BY <2>1 DEF InKill, TypeOK
  <2> QED
    BY <2>2, <2>3 DEF KillerControl
<1>4. ASSUME NEW c \in Controllers, ConnectReturn(c)
      PROVE  KillerControl'
  BY <1>4, StageAssumption
    DEF TypeOK, ControlInv, KillerControl, InKill, ControllerControl, AllStages,
        ConnectReturn, stageVars
<1>5. ASSUME NEW c \in Controllers, DisconnectResume(c)
      PROVE  KillerControl'
  <2>1. /\ cpc[c] = "dwoken"
        /\ target[c] \in AllStages
        /\ \/ Waits(c, target[c]) /\ thread_mutex_' = thread_mutex_
           \/ /\ Finishes(c, target[c])
              /\ thread_mutex_' = IF target[c] = Killer THEN None ELSE thread_mutex_
    BY <1>5, ResumeEffect DEF ControlInv
  <2>2. UNCHANGED <<connected_, event_ref_, backlog>>
    BY <1>5 DEF DisconnectResume
  <2>3. CASE Waits(c, target[c]) /\ thread_mutex_' = thread_mutex_
    BY <2>1, <2>2, <2>3, StageAssumption
      DEF Waits, TypeOK, ControlInv, KillerControl, InKill, AllStages
  <2>4. CASE /\ Finishes(c, target[c])
             /\ thread_mutex_' = IF target[c] = Killer THEN None ELSE thread_mutex_
    BY <2>1, <2>2, <2>4, StageAssumption
      DEF Finishes, TypeOK, ControlInv, KillerControl, InKill, AllStages
  <2> QED
    BY <2>1, <2>3, <2>4
<1>6. ASSUME NEW c \in Controllers, KillWait(c)
      PROVE  KillerControl'
  BY <1>6, StageAssumption
    DEF TypeOK, ControlInv, KillerControl, InKill, ControllerControl, AllStages,
        KillWait, begin_kill_wait, stageVars
<1>7. ASSUME NEW c \in Controllers, KillResume(c)
      PROVE  KillerControl'
  <2>1. cpc[c] = "kwoken" /\ thread_mutex_ = None
    BY <1>7 DEF KillResume
  <2>2. /\ connected_' = [connected_ EXCEPT ![Killer] = FALSE]
        /\ thread_mutex_' = IF event_ref_[Killer] > 0 THEN c ELSE None
        /\ UNCHANGED <<event_ref_, backlog>>
    BY <1>7 DEF KillResume, begin_disconnect
  <2>3. Waits(c, Killer) \/ Finishes(c, Killer)
    BY <1>7, DisconnectEffect DEF KillResume, begin_disconnect
  <2>4. CASE Waits(c, Killer)
    BY <2>1, <2>2, <2>4, KillerFree, StageAssumption
      DEF Waits, TypeOK, ControlInv, KillerControl, InKill, AllStages
  <2>5. CASE Finishes(c, Killer)
    BY <2>1, <2>2, <2>5, StageAssumption
      DEF Finishes, TypeOK, ControlInv, KillerControl, InKill, AllStages
  <2> QED
    BY <2>3, <2>4, <2>5
<1>8. ASSUME NEW c \in Controllers, NEW s \in Stages, Connect(c, s)
      PROVE  KillerControl'
  BY <1>8, StageAssumption
    DEF TypeOK, ControlInv, KillerControl, InKill, ControllerControl, AllStages,
        Connect, begin_connect, connect_with
<1>9. ASSUME NEW c \in Controllers, NEW s \in Stages, Disconnect(c, s)
      PROVE  KillerControl'
  <2>1. cpc[c] = "ready" /\ ~Owned(s) /\ connected_[s]
    BY <1>9 DEF Disconnect
  <2>2. /\ connected_' = [connected_ EXCEPT ![s] = FALSE]
        /\ UNCHANGED <<event_ref_, backlog, thread_mutex_>>
    BY <1>9 DEF Disconnect, begin_disconnect, countVars
  <2>3. Waits(c, s) \/ Finishes(c, s)
    BY <1>9, DisconnectEffect DEF Disconnect, begin_disconnect
  <2>4. CASE Waits(c, s)
    BY <2>1, <2>2, <2>4, StageAssumption
      DEF Waits, Owned, TypeOK, ControlInv, KillerControl, InKill, AllStages
  <2>5. CASE Finishes(c, s)
    BY <2>1, <2>2, <2>5, StageAssumption
      DEF Finishes, Owned, TypeOK, ControlInv, KillerControl, InKill, AllStages
  <2> QED
    BY <2>3, <2>4, <2>5
<1>10. ASSUME NEW c \in Controllers, NEW n \in KillSizes, KillThreads(c, n)
      PROVE  KillerControl'
  <2>1. cpc[c] = "ready" /\ thread_mutex_ = None /\ (Starts(c) \/ Aborts(c))
    BY <1>10, KillThreadsEffect
  <2>2. CASE Starts(c)
    BY <2>1, <2>2, KillerFree, StageAssumption
      DEF Starts, TypeOK, ControlInv, KillerControl, InKill, AllStages
  <2>3. CASE Aborts(c)
    BY <2>1, <2>3, StageAssumption
      DEF Aborts, TypeOK, ControlInv, KillerControl, InKill, AllStages
  <2> QED
    BY <2>1, <2>2, <2>3
<1>11. ASSUME NEW c \in Controllers, SpuriousController(c)
      PROVE  KillerControl'
  <2>1. \/ cpc[c] = "dwait" /\ cpc' = [cpc EXCEPT ![c] = "dwoken"]
        \/ cpc[c] = "kwait" /\ cpc' = [cpc EXCEPT ![c] = "kwoken"]
    BY <1>11 DEF SpuriousController
  <2>2. connected_' = connected_
    BY <1>11 DEF SpuriousController, stageVars
  <2>3. \A d \in Controllers : InKill(d)' <=> InKill(d)
    BY <2>1 DEF TypeOK, InKill
  <2> QED
    BY <2>2, <2>3 DEF ControlInv, KillerControl
<1>12. ASSUME NEW t \in Threads,
             Schedule(t)
      PROVE  KillerControl'
  BY <1>0, <1>12 DEF Schedule, stageVars, ctrlVars
<1>13. ASSUME NEW p \in Producers, NEW s \in Stages, NEW e \in Events,
             ProducerAdd(p, s, e)
      PROVE  KillerControl'
  BY <1>0, <1>13 DEF ProducerAdd, stageVars, ctrlVars
<1>14. ASSUME NEW w \in Workers,
             WorkerWait(w) \/ WorkerPop(w) \/ RemoveEvent(w) \/
             HandleDone(w) \/ SpuriousRun(w)
      PROVE  KillerControl'
  BY <1>0, <1>14
    DEF WorkerWait, WorkerPop, pop_stage, RemoveEvent, dispatch, HandleDone,
        SpuriousRun, stageVars, ctrlVars
<1>15. ASSUME NEW w \in Workers, NEW s \in Stages,
             HandleForward(w, s)
      PROVE  KillerControl'
  BY <1>0, <1>15 DEF HandleForward, stageVars, ctrlVars
<1>16. ASSUME NEW c \in Controllers,
             ConnectSchedule(c) \/ GenKillEvent(c)
      PROVE  KillerControl'
  BY <1>0, <1>16
    DEF ConnectSchedule, schedule_backlog, GenKillEvent, stageVars, ctrlVars
<1>17. ASSUME NEW c \in Controllers, NEW s \in Stages,
             SetPool(c, s)
      PROVE  KillerControl'
  BY <1>0, <1>17 DEF SetPool, stageVars, ctrlVars
<1>18. ASSUME NEW c \in Controllers, NEW n \in AddSizes,
             AddThreads(c, n)
      PROVE  KillerControl'
  BY <1>0, <1>18 DEF AddThreads, stageVars, ctrlVars
<1>19. ASSUME UNCHANGED vars PROVE KillerControl'
  BY <1>0, <1>19 DEF vars, stageVars, ctrlVars
<1> QED
  BY <1>1, <1>2, <1>3, <1>4, <1>5, <1>6, <1>7, <1>8, <1>9, <1>10, <1>11, <1>12, <1>13,
     <1>14, <1>15, <1>16, <1>17, <1>18, <1>19
    DEF Next, WorkerStep, ControllerStep, ControllerCall

(* disconnect() lets go of the pool only when no reference is left. *)
LEMMA StageControlStep ==
  ASSUME TypeOK, ControlInv, RefCount, [Next]_vars
  PROVE  StageControl'
<1>0. UNCHANGED <<connected_, target, cpc, th_pool_, event_ref_>> => StageControl'
  BY DEF ControlInv, StageControl, Closing
<1>1. ASSUME NEW p \in Producers, NEW s \in Stages, NEW e \in Events, ProducerAdd(p, s,
             e)
      PROVE  StageControl'
  <2>1. UNCHANGED <<connected_, target, th_pool_, cpc>>
    BY <1>1 DEF ProducerAdd, ctrlVars
  <2>2. \/ event_ref_' = event_ref_
        \/ connected_[s] /\ event_ref_' = [event_ref_ EXCEPT ![s] = event_ref_[s] + 1]
    BY <1>1 DEF ProducerAdd, add_event
  <2>3. \A r \in AllStages : Closing(r)' <=> Closing(r)
    BY <2>1 DEF Closing
  <2> QED
    BY <2>1, <2>2, <2>3 DEF TypeOK, ControlInv, StageControl
<1>2. ASSUME NEW w \in Workers, NEW s \in Stages, HandleForward(w, s)
      PROVE  StageControl'
  <2>1. UNCHANGED <<connected_, target, th_pool_, cpc>>
    BY <1>2 DEF HandleForward, ctrlVars
  <2>2. \/ event_ref_' = event_ref_
        \/ connected_[s] /\ event_ref_' = [event_ref_ EXCEPT ![s] = event_ref_[s] + 1]
    BY <1>2 DEF HandleForward, add_event
  <2>3. \A r \in AllStages : Closing(r)' <=> Closing(r)
    BY <2>1 DEF Closing
  <2> QED
    BY <2>1, <2>2, <2>3 DEF TypeOK, ControlInv, StageControl
<1>3. ASSUME NEW w \in Workers, ReleaseEvent(w)
      PROVE  StageControl'
  <2>1. \/ cpc' = cpc
        \/ \E d \in Controllers :
             /\ cpc[d] = "dwait" /\ target[d] = serving[w]
             /\ cpc' = [cpc EXCEPT ![d] = "dwoken"]
    BY <1>3, ReleaseEffect DEF ReleaseEvent
  <2>2. UNCHANGED <<connected_, target, th_pool_>>
    BY <1>3 DEF ReleaseEvent
  <2>3. serving[w] \in AllStages
    BY <1>3, StageAssumption DEF TypeOK, ControlInv, WorkerControl, ReleaseEvent
  <2>4. event_ref_[serving[w]] > 0
    BY <2>3, ServerHasReference
  <2>5. \A s \in AllStages : Closing(s)' <=> Closing(s)
    BY <2>1, <2>2 DEF Closing, TypeOK
  <2>6. event_ref_' = [event_ref_ EXCEPT ![serving[w]] = event_ref_[serving[w]] - 1]
    BY <1>3 DEF ReleaseEvent, release_event, drop_reference
  <2>7. \A c \in Controllers :
          cpc'[c] \in {"connect", "kgen"} => cpc[c] \in {"connect", "kgen"}
    BY <2>1 DEF TypeOK
  <2> QED
    BY <2>2, <2>3, <2>4, <2>5, <2>6, <2>7 DEF TypeOK, ControlInv, StageControl
<1>4. ASSUME NEW w \in Workers, ThreadKill(w)
      PROVE  StageControl'
  <2>1. \/ cpc' = cpc
        \/ \E d \in Controllers :
             cpc[d] = "kwait" /\ cpc' = [cpc EXCEPT ![d] = "kwoken"]
    BY <1>4, ThreadKillEffect
  <2>2. UNCHANGED <<connected_, target, backlog, thread_mutex_, th_pool_, event_ref_>>
    BY <1>4 DEF ThreadKill, count_kill, stageVars
  <2>3. \A r \in AllStages : Closing(r)' <=> Closing(r)
    BY <2>1, <2>2 DEF Closing, TypeOK
  <2> QED
    BY <2>1, <2>2, <2>3 DEF TypeOK, ControlInv, StageControl
<1>5. ASSUME NEW w \in Workers, KillExit(w)
      PROVE  StageControl'
  <2>1. \/ cpc' = cpc
        \/ \E d \in Controllers :
             /\ cpc[d] = "dwait" /\ target[d] = serving[w]
             /\ cpc' = [cpc EXCEPT ![d] = "dwoken"]
    BY <1>5, ReleaseEffect DEF KillExit
  <2>2. UNCHANGED <<connected_, target, th_pool_>>
    BY <1>5 DEF KillExit
  <2>3. serving[w] \in AllStages
    BY <1>5, StageAssumption DEF TypeOK, ControlInv, WorkerControl, KillExit
  <2>4. event_ref_[serving[w]] > 0
    BY <2>3, ServerHasReference
  <2>5. \A s \in AllStages : Closing(s)' <=> Closing(s)
    BY <2>1, <2>2 DEF Closing, TypeOK
  <2>6. event_ref_' = [event_ref_ EXCEPT ![serving[w]] = event_ref_[serving[w]] - 1]
    BY <1>5 DEF KillExit, release_event, drop_reference
  <2>7. \A c \in Controllers :
          cpc'[c] \in {"connect", "kgen"} => cpc[c] \in {"connect", "kgen"}
    BY <2>1 DEF TypeOK
  <2> QED
    BY <2>2, <2>3, <2>4, <2>5, <2>6, <2>7 DEF TypeOK, ControlInv, StageControl
<1>6. ASSUME NEW c \in Controllers, ConnectReturn(c)
      PROVE  StageControl'
  BY <1>6, StageAssumption
    DEF TypeOK, ControlInv, StageControl, Closing, ControllerControl, AllStages, Owned,
        ConnectReturn, stageVars
<1>7. ASSUME NEW c \in Controllers, DisconnectResume(c)
      PROVE  StageControl'
  <2>1. /\ target[c] \in AllStages
        /\ \A d \in Controllers : d # c => target[d] # target[c]
        /\ ~connected_[target[c]] /\ th_pool_[target[c]]
    BY <1>7, ResumeEffect DEF ControlInv, ControllerControl, StageControl, Closing
  <2>2. UNCHANGED <<connected_, event_ref_>>
    BY <1>7 DEF DisconnectResume
  <2>3. Waits(c, target[c]) \/ Finishes(c, target[c])
    BY <1>7, ResumeEffect DEF ControlInv
  <2>4. CASE Waits(c, target[c])
    <3>1. \A r \in AllStages : Closing(r)' <=> Closing(r) \/ r = target[c]
      BY <2>1, <2>4, ClosingWaits
    <3> QED
      BY <2>1, <2>2, <2>4, <3>1 DEF Waits, TypeOK, ControlInv, StageControl
  <2>5. CASE Finishes(c, target[c])
    <3>1. \A r \in AllStages : Closing(r)' <=> Closing(r) /\ r # target[c]
      BY <2>1, <2>5, ClosingFinishes
    <3>2. event_ref_[target[c]] = 0
      BY <2>1, <2>5, ReferencesNat DEF Finishes
    <3> QED
      BY <2>1, <2>2, <2>5, <3>1, <3>2 DEF Finishes, TypeOK, ControlInv, StageControl
  <2> QED
    BY <2>3, <2>4, <2>5
<1>8. ASSUME NEW c \in Controllers, GenKillEvent(c)
      PROVE  StageControl'
  <2>1. UNCHANGED <<connected_, target, th_pool_, cpc>>
    BY <1>8 DEF GenKillEvent, ctrlVars
  <2>2. \/ event_ref_' = event_ref_
        \/ connected_[Killer] /\ event_ref_' = [event_ref_ EXCEPT ![Killer] = event_ref_[Killer] + 1]
    BY <1>8 DEF GenKillEvent, add_event
  <2>3. \A r \in AllStages : Closing(r)' <=> Closing(r)
    BY <2>1 DEF Closing
  <2> QED
    BY <2>1, <2>2, <2>3 DEF TypeOK, ControlInv, StageControl
<1>9. ASSUME NEW c \in Controllers, KillWait(c)
      PROVE  StageControl'
  <2>1. /\ cpc[c] = "kgen" /\ backlog[c] = 0
        /\ cpc' = [cpc EXCEPT ![c] = "kwait"]
        /\ target' = [target EXCEPT ![c] = None]
        /\ thread_mutex_' = None
        /\ UNCHANGED <<connected_, backlog, th_pool_, event_ref_>>
    BY <1>9 DEF KillWait, begin_kill_wait, stageVars
  <2> QED
    BY <2>1, StageAssumption
      DEF TypeOK, ControlInv, StageControl, Closing, ControllerControl, AllStages
<1>10. ASSUME NEW c \in Controllers, KillResume(c)
      PROVE  StageControl'
  <2>1. /\ Killer \in AllStages /\ connected_[Killer]
        /\ \A d \in Controllers : target[d] # Killer
        /\ target[c] = None
    BY <1>10, KillerFree DEF KillResume, AllStages, ControlInv, ControllerControl,
       KillerControl, InKill
  <2>2. /\ connected_' = [connected_ EXCEPT ![Killer] = FALSE]
        /\ event_ref_' = event_ref_
    BY <1>10 DEF KillResume, begin_disconnect
  <2>3. Waits(c, Killer) \/ Finishes(c, Killer)
    BY <1>10, DisconnectEffect DEF KillResume, begin_disconnect
  <2>4. CASE Waits(c, Killer)
    <3>1. \A r \in AllStages : Closing(r)' <=> Closing(r) \/ r = Killer
      BY <2>1, <2>4, ClosingWaits
    <3> QED
      BY <2>1, <2>2, <2>4, <3>1 DEF Waits, TypeOK, ControlInv, StageControl
  <2>5. CASE Finishes(c, Killer)
    <3>1. \A r \in AllStages : Closing(r)' <=> Closing(r) /\ r # Killer
      BY <2>1, <2>5, ClosingFinishes
    <3>2. event_ref_[Killer] = 0
      BY <2>1, <2>5, ReferencesNat DEF Finishes
    <3> QED
      BY <2>1, <2>2, <2>5, <3>1, <3>2 DEF Finishes, TypeOK, ControlInv, StageControl
  <2> QED
    BY <2>3, <2>4, <2>5
<1>11. ASSUME NEW c \in Controllers, NEW s \in Stages, SetPool(c, s)
      PROVE  StageControl'
  BY <1>11, StageAssumption
    DEF TypeOK, ControlInv, StageControl, Closing, ControllerControl, AllStages, Owned,
        SetPool, stageVars, ctrlVars
<1>12. ASSUME NEW c \in Controllers, NEW s \in Stages, Connect(c, s)
      PROVE  StageControl'
  <2>1. /\ s \in AllStages /\ ~connected_[s] /\ th_pool_[s]
        /\ \A d \in Controllers : target[d] # s
        /\ target[c] = None
    BY <1>12 DEF Connect, Owned, AllStages, ControlInv, ControllerControl
  <2>2. /\ event_ref_' = [event_ref_ EXCEPT ![s] = Len(event_list_[s])]
        /\ connected_' = [connected_ EXCEPT ![s] = TRUE]
        /\ target' = [target EXCEPT ![c] = s]
        /\ cpc' = [cpc EXCEPT ![c] = "connect"]
        /\ th_pool_' = th_pool_
    BY <1>12 DEF Connect, begin_connect, connect_with
  <2>3. \A r \in AllStages : Closing(r)' <=> Closing(r)
    BY <2>1, <2>2, StageAssumption DEF Closing, TypeOK
  <2>4. ~Closing(s)
    BY <2>1 DEF Closing
  <2> QED
    BY <2>1, <2>2, <2>3, <2>4 DEF TypeOK, ControlInv, StageControl
<1>13. ASSUME NEW c \in Controllers, NEW s \in Stages, Disconnect(c, s)
      PROVE  StageControl'
  <2>1. /\ s \in AllStages /\ connected_[s]
        /\ \A d \in Controllers : target[d] # s
        /\ target[c] = None
    BY <1>13 DEF Disconnect, Owned, AllStages, ControlInv, ControllerControl
  <2>2. /\ connected_' = [connected_ EXCEPT ![s] = FALSE]
        /\ event_ref_' = event_ref_
    BY <1>13 DEF Disconnect, begin_disconnect
  <2>3. Waits(c, s) \/ Finishes(c, s)
    BY <1>13, DisconnectEffect DEF Disconnect, begin_disconnect
  <2>4. CASE Waits(c, s)
    <3>1. \A r \in AllStages : Closing(r)' <=> Closing(r) \/ r = s
      BY <2>1, <2>4, ClosingWaits
    <3> QED
      BY <2>1, <2>2, <2>4, <3>1 DEF Waits, TypeOK, ControlInv, StageControl
  <2>5. CASE Finishes(c, s)
    <3>1. \A r \in AllStages : Closing(r)' <=> Closing(r) /\ r # s
      BY <2>1, <2>5, ClosingFinishes
    <3>2. event_ref_[s] = 0
      BY <2>1, <2>5, ReferencesNat DEF Finishes
    <3> QED
      BY <2>1, <2>2, <2>5, <3>1, <3>2 DEF Finishes, TypeOK, ControlInv, StageControl
  <2> QED
    BY <2>3, <2>4, <2>5
<1>14. ASSUME NEW c \in Controllers, NEW n \in KillSizes, KillThreads(c, n)
      PROVE  StageControl'
  <2>1. /\ Killer \in AllStages
        /\ \A d \in Controllers : target[d] # Killer
        /\ target[c] = None /\ cpc[c] = "ready"
        /\ Starts(c) \/ Aborts(c)
    BY <1>14, KillThreadsEffect, KillerFree DEF AllStages, ControlInv, ControllerControl
  <2>2. CASE Starts(c)
    <3>1. \A r \in AllStages : Closing(r)' <=> Closing(r)
      BY <2>1, <2>2, StageAssumption DEF Starts, Closing, TypeOK
    <3>2. ~Closing(Killer)
      BY <2>1 DEF Closing
    <3> QED
      BY <2>1, <2>2, <3>1, <3>2 DEF Starts, TypeOK, ControlInv, StageControl
  <2>3. CASE Aborts(c)
    <3>1. \A r \in AllStages : Closing(r)' <=> Closing(r)
      BY <2>1, <2>3 DEF Aborts, Closing, TypeOK
    <3> QED
      BY <2>1, <2>3, <3>1 DEF Aborts, TypeOK, ControlInv, StageControl
  <2> QED
    BY <2>1, <2>2, <2>3
<1>15. ASSUME NEW c \in Controllers, SpuriousController(c)
      PROVE  StageControl'
  <2>1. \/ cpc[c] = "dwait" /\ cpc' = [cpc EXCEPT ![c] = "dwoken"]
        \/ cpc[c] = "kwait" /\ cpc' = [cpc EXCEPT ![c] = "kwoken"]
    BY <1>15 DEF SpuriousController
  <2>2. UNCHANGED <<connected_, target, backlog, thread_mutex_, th_pool_, event_ref_>>
    BY <1>15 DEF SpuriousController, stageVars, countVars
  <2>3. \A r \in AllStages : Closing(r)' <=> Closing(r)
    BY <2>1, <2>2 DEF Closing, TypeOK
  <2> QED
    BY <2>1, <2>2, <2>3 DEF TypeOK, ControlInv, StageControl
<1>16. ASSUME NEW t \in Threads,
             Schedule(t)
      PROVE  StageControl'
  BY <1>0, <1>16 DEF Schedule, stageVars, ctrlVars
<1>17. ASSUME NEW w \in Workers,
             WorkerWait(w) \/ WorkerPop(w) \/ RemoveEvent(w) \/
             HandleDone(w) \/ SpuriousRun(w)
      PROVE  StageControl'
  BY <1>0, <1>17
    DEF WorkerWait, WorkerPop, pop_stage, RemoveEvent, dispatch, HandleDone,
        SpuriousRun, stageVars, ctrlVars
<1>18. ASSUME NEW c \in Controllers,
             ConnectSchedule(c)
      PROVE  StageControl'
  BY <1>0, <1>18 DEF ConnectSchedule, schedule_backlog, stageVars, ctrlVars
<1>19. ASSUME NEW c \in Controllers, NEW n \in AddSizes,
             AddThreads(c, n)
      PROVE  StageControl'
  BY <1>0, <1>19 DEF AddThreads, stageVars, ctrlVars
<1>20. ASSUME UNCHANGED vars PROVE StageControl'
  BY <1>0, <1>20 DEF vars, stageVars, ctrlVars
<1> QED
  BY <1>1, <1>2, <1>3, <1>4, <1>5, <1>6, <1>7, <1>8, <1>9, <1>10, <1>11, <1>12, <1>13,
     <1>14, <1>15, <1>16, <1>17, <1>18, <1>19, <1>20
    DEF Next, WorkerStep, ControllerStep, ControllerCall

(* A step preserves the control part of the invariant. *)
LEMMA ControlStep ==
  ASSUME TypeOK, ControlInv, RefCount, [Next]_vars
  PROVE  ControlInv'
  BY WorkerControlStep, QueueControlStep, AdderControlStep, ControllerControlStep,
     MutexControlStep, KillerControlStep, StageControlStep
    DEF ControlInv

-----------------------------------------------------------------------------
(* The counters, the inductive invariant and the theorems. *)

\* How the counters of a stage move.  One(r, s) is the change of stage r's
\* counter when an element moves that belongs to stage s.
One(r, s) == IF r = s THEN 1 ELSE 0

LEMMA OccurrencesAppend ==
  ASSUME TypeOK, NEW r \in AllStages, NEW s \in AllStages,
         run_queue_' = Append(run_queue_, s)
  PROVE  Cardinality(Occurrences(r))' = Cardinality(Occurrences(r)) + One(r, s)
<1> DEFINE n == Len(run_queue_) + 1
<1>1. /\ run_queue_ \in Seq(AllStages)
      /\ DOMAIN run_queue_ = 1 .. Len(run_queue_)
      /\ Len(run_queue_) \in Nat
  BY DEF TypeOK
<1>2. /\ DOMAIN run_queue_' = 1 .. n
      /\ \A i \in 1 .. Len(run_queue_) : run_queue_'[i] = run_queue_[i]
      /\ run_queue_'[n] = s
  BY <1>1
<1>3. n \notin Occurrences(r)
  BY <1>1 DEF Occurrences
<1>4. CASE r = s
  <2>1. Occurrences(r)' = Occurrences(r) \cup {n}
    BY <1>1, <1>2, <1>4 DEF Occurrences
  <2> QED
    BY <1>3, <1>4, <2>1, CountTypes, FS_AddElement DEF One
<1>5. CASE r # s
  <2>1. Occurrences(r)' = Occurrences(r)
    BY <1>1, <1>2, <1>5 DEF Occurrences
  <2> QED
    BY <1>5, <2>1, CountTypes DEF One
<1> QED
  BY <1>4, <1>5

LEMMA OccurrencesTail ==
  ASSUME TypeOK, NEW r \in AllStages, run_queue_ # <<>>,
         run_queue_' = Tail(run_queue_)
  PROVE  Cardinality(Occurrences(r))'
           = Cardinality(Occurrences(r)) - One(r, Head(run_queue_))
<1> DEFINE rest == Occurrences(r) \ {1}
           f == [i \in rest |-> i - 1]
<1>1. /\ run_queue_ \in Seq(AllStages)
      /\ DOMAIN run_queue_ = 1 .. Len(run_queue_)
      /\ Len(run_queue_) \in Nat /\ Len(run_queue_) > 0
      /\ Head(run_queue_) = run_queue_[1]
  BY DEF TypeOK
<1>2. /\ DOMAIN run_queue_' = 1 .. (Len(run_queue_) - 1)
      /\ \A i \in 1 .. (Len(run_queue_) - 1) : run_queue_'[i] = run_queue_[i + 1]
  BY <1>1
<1>3. \A i \in rest : i \in 2 .. Len(run_queue_) /\ run_queue_[i] = r
  BY <1>1 DEF Occurrences
<1>4. \A j \in Occurrences(r)' : j + 1 \in rest /\ j \in Nat
  BY <1>1, <1>2 DEF Occurrences
<1>5. \A i \in rest : i - 1 \in Occurrences(r)'
  BY <1>1, <1>2, <1>3 DEF Occurrences
<1>6. f \in Bijection(rest, Occurrences(r)')
  <2>1. f \in [rest -> Occurrences(r)']
    BY <1>5
  <2>2. \A a, b \in rest : f[a] = f[b] => a = b
    BY <1>3
  <2>3. \A j \in Occurrences(r)' : \E i \in rest : f[i] = j
    BY <1>4
  <2> QED
    BY <2>1, <2>2, <2>3 DEF Bijection, Injection, Surjection, IsInjective
<1>7. IsFiniteSet(rest)
      /\ Cardinality(rest) = IF 1 \in Occurrences(r) THEN Cardinality(Occurrences(r)) - 1
                             ELSE Cardinality(Occurrences(r))
  BY CountTypes, FS_RemoveElement
<1>8. Cardinality(Occurrences(r)') = Cardinality(rest)
  BY <1>6, <1>7, FS_Bijection DEF ExistsBijection
<1>9. 1 \in Occurrences(r) <=> r = Head(run_queue_)
  BY <1>1 DEF Occurrences
<1> QED
  BY <1>7, <1>8, <1>9, CountTypes DEF One

LEMMA AddersSet ==
  ASSUME TypeOK, NEW r \in AllStages, NEW s \in AllStages, NEW t \in Threads,
         adding[t] = None, adding' = [adding EXCEPT ![t] = s]
  PROVE  Cardinality(Adders(r))' = Cardinality(Adders(r)) + One(r, s)
<1>1. t \notin Adders(r)
  BY StageAssumption DEF Adders
<1>2. Adders(r)' = IF r = s THEN Adders(r) \cup {t} ELSE Adders(r)
  BY <1>1 DEF Adders, TypeOK
<1>3. Cardinality(Adders(r) \cup {t}) = Cardinality(Adders(r)) + 1
  BY <1>1, CountTypes, FS_AddElement
<1> QED
  BY <1>2, <1>3, CountTypes DEF One

LEMMA AddersClear ==
  ASSUME TypeOK, NEW r \in AllStages, NEW t \in Threads,
         adding' = [adding EXCEPT ![t] = None]
  PROVE  Cardinality(Adders(r))' = Cardinality(Adders(r)) - One(r, adding[t])
<1>1. t \in Adders(r) <=> r = adding[t]
  BY DEF Adders
<1>2. Adders(r)' = Adders(r) \ {t}
  BY StageAssumption DEF Adders, TypeOK
<1>3. Cardinality(Adders(r) \ {t}) = IF t \in Adders(r) THEN Cardinality(Adders(r)) - 1
                                  ELSE Cardinality(Adders(r))
  BY CountTypes, FS_RemoveElement
<1> QED
  BY <1>1, <1>2, <1>3, CountTypes DEF One

LEMMA ServersSet ==
  ASSUME TypeOK, NEW r \in AllStages, NEW s \in AllStages, NEW w \in Workers,
         serving[w] = None, serving' = [serving EXCEPT ![w] = s]
  PROVE  Cardinality(Servers(r))' = Cardinality(Servers(r)) + One(r, s)
<1>1. w \notin Servers(r)
  BY StageAssumption DEF Servers
<1>2. Servers(r)' = IF r = s THEN Servers(r) \cup {w} ELSE Servers(r)
  BY <1>1 DEF Servers, TypeOK
<1>3. Cardinality(Servers(r) \cup {w}) = Cardinality(Servers(r)) + 1
  BY <1>1, CountTypes, FS_AddElement
<1> QED
  BY <1>2, <1>3, CountTypes DEF One

LEMMA ServersClear ==
  ASSUME TypeOK, NEW r \in AllStages, NEW w \in Workers,
         serving' = [serving EXCEPT ![w] = None]
  PROVE  Cardinality(Servers(r))' = Cardinality(Servers(r)) - One(r, serving[w])
<1>1. w \in Servers(r) <=> r = serving[w]
  BY DEF Servers
<1>2. Servers(r)' = Servers(r) \ {w}
  BY StageAssumption DEF Servers, TypeOK
<1>3. Cardinality(Servers(r) \ {w}) = IF w \in Servers(r) THEN Cardinality(Servers(r)) - 1
                                  ELSE Cardinality(Servers(r))
  BY CountTypes, FS_RemoveElement
<1> QED
  BY <1>1, <1>2, <1>3, CountTypes DEF One

LEMMA PoppersSet ==
  ASSUME TypeOK, NEW r \in AllStages, NEW s \in AllStages, NEW w \in Workers,
         serving[w] = None, serving' = [serving EXCEPT ![w] = s],
         wpc' = [wpc EXCEPT ![w] = "popped"]
  PROVE  Cardinality(Poppers(r))' = Cardinality(Poppers(r)) + One(r, s)
<1>1. w \notin Poppers(r)
  BY StageAssumption DEF Poppers
<1>2. Poppers(r)' = IF r = s THEN Poppers(r) \cup {w} ELSE Poppers(r)
  BY <1>1 DEF Poppers, TypeOK
<1>3. Cardinality(Poppers(r) \cup {w}) = Cardinality(Poppers(r)) + 1
  BY <1>1, CountTypes, FS_AddElement
<1> QED
  BY <1>2, <1>3, CountTypes DEF One

LEMMA PoppersClear ==
  ASSUME TypeOK, NEW r \in AllStages, NEW w \in Workers, wpc[w] = "popped",
         serving' = serving, NEW x, x # "popped", wpc' = [wpc EXCEPT ![w] = x]
  PROVE  Cardinality(Poppers(r))' = Cardinality(Poppers(r)) - One(r, serving[w])
<1>1. w \in Poppers(r) <=> r = serving[w]
  BY DEF Poppers
<1>2. Poppers(r)' = Poppers(r) \ {w}
  BY DEF Poppers, TypeOK
<1>3. Cardinality(Poppers(r) \ {w}) = IF w \in Poppers(r) THEN Cardinality(Poppers(r)) - 1
                                  ELSE Cardinality(Poppers(r))
  BY CountTypes, FS_RemoveElement
<1> QED
  BY <1>1, <1>2, <1>3, CountTypes DEF One

\* connect() has at most one caller per stage, so Owed is its backlog.
LEMMA OwedIs ==
  ASSUME ControllerControl, NEW c \in Controllers, NEW s \in AllStages,
         target[c] = s, cpc[c] \in {"connect", "kgen"}
  PROVE  Owed(s) = backlog[c]
<1>1. Connecting(s) = {c}
  BY StageAssumption DEF Connecting, ControllerControl, AllStages
<1> QED
  BY <1>1 DEF Owed

LEMMA OwedNone ==
  ASSUME NEW s, Connecting(s) = {}
  PROVE  Owed(s) = 0
  BY DEF Owed

LEMMA OwedSame ==
  ASSUME NEW s, Connecting(s)' = Connecting(s), backlog' = backlog
  PROVE  Owed(s)' = Owed(s)
  BY DEF Owed

\* RefCount and QueueCoversTickets, for one stage.
Balanced(r) ==
  /\ event_ref_[r] = Cardinality(Occurrences(r)) + Cardinality(Adders(r))
                     + Cardinality(Servers(r)) + Owed(r)
  /\ Len(event_list_[r]) >= Cardinality(Occurrences(r)) + Cardinality(Adders(r))
                            + Cardinality(Poppers(r)) + Owed(r)
  /\ connected_[r] =>
       Len(event_list_[r]) = Cardinality(Occurrences(r)) + Cardinality(Adders(r))
                             + Cardinality(Poppers(r)) + Owed(r)

LEMMA BalancedStages ==
  ASSUME RefCount, QueueCoversTickets
  PROVE  \A r \in AllStages : Balanced(r)
  BY DEF RefCount, QueueCoversTickets, Tickets, Balanced

LEMMA LenType ==
  ASSUME TypeOK, NEW r \in AllStages
  PROVE  /\ Len(event_list_[r]) \in Nat
         /\ event_ref_[r] \in Int
         /\ connected_[r] \in BOOLEAN
  BY DEF TypeOK

\* A step that moves no event, no reference and no service.
LEMMA BalanceKept ==
  ASSUME NEW r \in AllStages, Balanced(r),
         UNCHANGED <<event_list_, event_ref_, run_queue_, adding, serving>>,
         connected_'[r] => connected_[r],
         Poppers(r)' = Poppers(r), Owed(r)' = Owed(r)
  PROVE  Balanced(r)'
<1>1. /\ Occurrences(r)' = Occurrences(r)
      /\ Adders(r)' = Adders(r)
      /\ Servers(r)' = Servers(r)
  BY DEF Occurrences, Adders, Servers
<1> QED
  BY <1>1 DEF Balanced

LEMMA PoppersSame ==
  ASSUME NEW r, serving' = serving, wpc' = wpc
  PROVE  Poppers(r)' = Poppers(r)
  BY DEF Poppers

\* Signals and wakeups move workers between "wait" and "woken" only.
LEMMA PoppersSignal ==
  ASSUME TypeOK, NEW r, serving' = serving,
         \/ wpc' = wpc
         \/ \E x \in Workers : wpc[x] = "wait" /\ wpc' = [wpc EXCEPT ![x] = "woken"]
  PROVE  Poppers(r)' = Poppers(r)
  BY DEF Poppers, TypeOK

LEMMA ScheduleEffect ==
  ASSUME NEW t, NEW s, schedule(t, s)
  PROVE  /\ run_queue_' = Append(run_queue_, s)
         /\ \/ wpc' = wpc
            \/ \E x \in Workers : wpc[x] = "wait" /\ wpc' = [wpc EXCEPT ![x] = "woken"]
  BY DEF schedule, push_stage, signal_run, Idle

LEMMA OwedUnchanged ==
  ASSUME NEW r, UNCHANGED <<cpc, target, backlog>>
  PROVE  Owed(r)' = Owed(r)
  BY DEF Owed, Connecting

\* A step that takes no controller into or out of connect().
LEMMA OwedKept ==
  ASSUME TypeOK, NEW r \in AllStages, backlog' = backlog, NEW c \in Controllers, NEW x,
         cpc[c] \notin {"connect", "kgen"}, x \notin {"connect", "kgen"},
         cpc' = [cpc EXCEPT ![c] = x],
         \/ target' = target
         \/ \E v : target' = [target EXCEPT ![c] = v]
  PROVE  Owed(r)' = Owed(r)
<1>1. Connecting(r)' = Connecting(r)
  BY DEF Connecting, TypeOK
<1> QED
  BY <1>1, OwedSame

\* connect() returns, and kill_threads() goes on to wait, with no backlog left.
LEMMA OwedReturn ==
  ASSUME TypeOK, ControllerControl, NEW r \in AllStages, backlog' = backlog,
         NEW c \in Controllers, cpc[c] \in {"connect", "kgen"}, backlog[c] = 0,
         NEW x, x \notin {"connect", "kgen"}, cpc' = [cpc EXCEPT ![c] = x],
         target' = [target EXCEPT ![c] = None]
  PROVE  Owed(r)' = Owed(r)
<1>1. CASE target[c] = r
  <2>1. Owed(r) = 0
    BY <1>1, OwedIs
  <2>2. Connecting(r)' = {}
    BY <1>1, StageAssumption DEF Connecting, ControllerControl, TypeOK
  <2> QED
    BY <2>1, <2>2 DEF Owed
<1>2. CASE target[c] # r
  <2>1. Connecting(r)' = Connecting(r)
    BY <1>2, StageAssumption DEF Connecting, TypeOK
  <2> QED
    BY <2>1, OwedSame
<1> QED
  BY <1>1, <1>2

LEMMA OwedSchedule ==
  ASSUME TypeOK, ControllerControl, NEW r \in AllStages, NEW c \in Controllers,
         backlog[c] > 0, backlog' = [backlog EXCEPT ![c] = backlog[c] - 1],
         UNCHANGED <<cpc, target>>
  PROVE  Owed(r)' = Owed(r) - One(r, target[c])
<1>1. Connecting(r)' = Connecting(r)
  BY DEF Connecting
<1>2. c \in Connecting(r) <=> r = target[c]
  BY DEF Connecting, ControllerControl, TypeOK
<1>3. CASE r = target[c]
  <2>1. Connecting(r) = {c}
    BY <1>2, <1>3, StageAssumption DEF Connecting, ControllerControl, TypeOK
  <2>2. Owed(r) = backlog[c] /\ Owed(r)' = backlog'[c]
    BY <1>1, <2>1 DEF Owed
  <2> QED
    BY <1>3, <2>2 DEF One, TypeOK
<1>4. CASE r # target[c]
  <2>1. CASE Connecting(r) = {}
    <3>1. Owed(r) = 0 /\ Owed(r)' = 0
      BY <1>1, <2>1 DEF Owed
    <3>2. One(r, target[c]) = 0
      BY <1>4 DEF One
    <3> QED
      BY <3>1, <3>2
  <2>2. CASE Connecting(r) # {}
    <3> DEFINE d == CHOOSE d \in Connecting(r) : TRUE
    <3>1. d \in Connecting(r) /\ d # c
      BY <1>2, <1>4, <2>2
    <3>2. backlog'[d] = backlog[d] /\ backlog[d] \in Nat
      BY <3>1 DEF Connecting, TypeOK
    <3> QED
      BY <1>1, <1>4, <2>2, <3>2 DEF Owed, One
  <2> QED
    BY <2>1, <2>2
<1> QED
  BY <1>3, <1>4

\* connect() of a stage that nobody owns.
LEMMA OwedBegin ==
  ASSUME TypeOK, NEW r \in AllStages, NEW c \in Controllers, NEW s \in AllStages,
         target[c] = None, \A d \in Controllers : target[d] # s,
         NEW n, backlog' = [backlog EXCEPT ![c] = n],
         target' = [target EXCEPT ![c] = s],
         NEW x \in {"connect", "kgen"}, cpc' = [cpc EXCEPT ![c] = x]
  PROVE  Owed(r)' = IF r = s THEN n ELSE Owed(r)
<1>1. CASE r = s
  <2>1. Connecting(r)' = {c}
    BY <1>1 DEF Connecting, TypeOK
  <2> QED
    BY <1>1, <2>1 DEF Owed, TypeOK
<1>2. CASE r # s
  <2>1. Connecting(r)' = Connecting(r) /\ c \notin Connecting(r)
    BY <1>2, StageAssumption DEF Connecting, TypeOK
  <2>2. \A d \in Connecting(r) : backlog'[d] = backlog[d]
    BY <2>1 DEF Connecting, TypeOK
  <2> QED
    BY <1>2, <2>1, <2>2 DEF Owed
<1> QED
  BY <1>1, <1>2

\* connect() takes a reference for every event that waits on the queue.
LEMMA BalanceConnect ==
  ASSUME TypeOK, NEW r \in AllStages, NEW c \in Controllers, NEW s \in AllStages,
         Balanced(r), event_ref_[s] = 0,
         target[c] = None, \A d \in Controllers : target[d] # s,
         backlog' = [backlog EXCEPT ![c] = Len(event_list_[s])],
         event_ref_' = [event_ref_ EXCEPT ![s] = Len(event_list_[s])],
         connected_' = [connected_ EXCEPT ![s] = TRUE],
         target' = [target EXCEPT ![c] = s],
         NEW x \in {"connect", "kgen"}, cpc' = [cpc EXCEPT ![c] = x],
         UNCHANGED <<event_list_, run_queue_, adding, serving, wpc>>
  PROVE  Balanced(r)'
<1>1. /\ Occurrences(r)' = Occurrences(r)
      /\ Adders(r)' = Adders(r)
      /\ Servers(r)' = Servers(r)
      /\ Poppers(r)' = Poppers(r)
  BY DEF Occurrences, Adders, Servers, Poppers
<1>2. Owed(r)' = IF r = s THEN Len(event_list_[s]) ELSE Owed(r)
  BY OwedBegin
<1>3. CASE r = s
  <2>1. /\ Cardinality(Occurrences(r)) = 0
        /\ Cardinality(Adders(r)) = 0
        /\ Cardinality(Servers(r)) = 0
    BY <1>3, CountTypes DEF Balanced
  <2>2. Cardinality(Poppers(r)) = 0
    <3>1. Servers(r) = {}
      BY <2>1, CountTypes, FS_EmptySet
    <3>2. Poppers(r) = {}
      BY <3>1 DEF Servers, Poppers
    <3> QED
      BY <3>2, FS_EmptySet
  <2>3. event_ref_'[r] = Len(event_list_[r]) /\ event_list_' = event_list_
    BY <1>3 DEF TypeOK
  <2>4. Len(event_list_[r]) \in Nat
    BY LenType
  <2> QED
    BY <1>1, <1>2, <1>3, <2>1, <2>2, <2>3, <2>4 DEF Balanced
<1>4. CASE r # s
  <2>1. event_ref_'[r] = event_ref_[r] /\ connected_'[r] = connected_[r]
    BY <1>4 DEF TypeOK
  <2> QED
    BY <1>1, <1>2, <1>4, <2>1 DEF Balanced
<1> QED
  BY <1>3, <1>4

\* add_event(): with a reference on a connected stage, without one otherwise.
LEMMA BalanceAdd ==
  ASSUME TypeOK, NEW r \in AllStages, Balanced(r), NEW t \in Threads,
         NEW s \in AllStages, NEW e, add_event(t, s, e), adding[t] = None,
         UNCHANGED <<connected_, run_queue_, serving>>,
         Poppers(r)' = Poppers(r), Owed(r)' = Owed(r)
  PROVE  Balanced(r)'
<1>1. Occurrences(r)' = Occurrences(r) /\ Servers(r)' = Servers(r)
  BY DEF Occurrences, Servers
<1>2. Len(event_list_'[r]) = Len(event_list_[r]) + One(r, s)
  BY DEF add_event, One, TypeOK
<1> DEFINE occ == Cardinality(Occurrences(r))
           add == Cardinality(Adders(r))
           ser == Cardinality(Servers(r))
           pop == Cardinality(Poppers(r))
<1>5. /\ occ' = occ /\ ser' = ser /\ pop' = pop
      /\ occ \in Nat /\ add \in Nat /\ ser \in Nat /\ pop \in Nat /\ Owed(r) \in Nat
  BY <1>1, CountTypes
<1>6. /\ event_ref_[r] = occ + add + ser + Owed(r)
      /\ Len(event_list_[r]) >= occ + add + pop + Owed(r)
      /\ connected_[r] => Len(event_list_[r]) = occ + add + pop + Owed(r)
  BY DEF Balanced
<1>8. /\ Len(event_list_[r]) \in Nat /\ event_ref_[r] \in Int
      /\ connected_'[r] = connected_[r]
  BY LenType
<1>7. SUFFICES
        /\ event_ref_'[r] = occ' + add' + ser' + Owed(r)'
        /\ Len(event_list_'[r]) >= occ' + add' + pop' + Owed(r)'
        /\ connected_'[r] => Len(event_list_'[r]) = occ' + add' + pop' + Owed(r)'
  BY DEF Balanced
<1>3. CASE connected_[s]
  <2>1. /\ event_ref_' = [event_ref_ EXCEPT ![s] = event_ref_[s] + 1]
        /\ adding' = [adding EXCEPT ![t] = s]
    BY <1>3 DEF add_event
  <2>2. Cardinality(Adders(r))' = Cardinality(Adders(r)) + One(r, s)
    BY <2>1, AddersSet
  <2>3. event_ref_'[r] = event_ref_[r] + One(r, s)
    BY <2>1 DEF One, TypeOK
  <2>4. One(r, s) \in Nat
    BY DEF One
  <2> QED
    <3>1. add' = add + One(r, s)
      BY <2>2
    <3> HIDE DEF occ, add, ser, pop
    <3>2. event_ref_'[r] = occ' + add' + ser' + Owed(r)'
      <4> DEFINE used == occ + add + ser + Owed(r)
      <4>1. used \in Nat /\ occ' + add' + ser' + Owed(r)' = used + One(r, s)
        BY <1>5, <2>4, <3>1
      <4>2. event_ref_[r] = used
        BY <1>6
      <4> HIDE DEF used
      <4> QED
        BY <2>3, <4>1, <4>2
    <3> DEFINE need == occ + add + pop + Owed(r)
    <3>3. need \in Nat /\ occ' + add' + pop' + Owed(r)' = need + One(r, s)
      BY <1>5, <2>4, <3>1
    <3>4. Len(event_list_[r]) >= need /\ (connected_[r] => Len(event_list_[r]) = need)
      BY <1>6
    <3> HIDE DEF need
    <3>5. /\ Len(event_list_'[r]) >= need + One(r, s)
          /\ connected_'[r] => Len(event_list_'[r]) = need + One(r, s)
      BY <1>2, <1>8, <2>4, <3>3, <3>4
    <3> QED
      BY <3>2, <3>3, <3>5
<1>4. CASE ~connected_[s]
  <2>1. event_ref_' = event_ref_ /\ Adders(r)' = Adders(r)
    BY <1>4 DEF add_event, Adders
  <2>2. One(r, s) \in Nat /\ (connected_[r] => One(r, s) = 0)
    BY <1>4 DEF One
  <2> QED
    <3>1. add' = add
      BY <2>1
    <3> HIDE DEF occ, add, ser, pop
    <3> QED
      BY <1>2, <1>5, <1>6, <1>8, <2>1, <2>2, <3>1
<1> QED
  BY <1>3, <1>4 DEF TypeOK

\* The end of a service: release_event() and the worker lets go of the stage.
LEMMA BalanceRelease ==
  ASSUME TypeOK, NEW r \in AllStages, Balanced(r), NEW w \in Workers,
         serving[w] \in AllStages, wpc[w] # "popped",
         event_ref_' = [event_ref_ EXCEPT ![serving[w]] = event_ref_[serving[w]] - 1],
         serving' = [serving EXCEPT ![w] = None],
         NEW x, x # "popped", wpc' = [wpc EXCEPT ![w] = x],
         UNCHANGED <<event_list_, connected_, run_queue_, adding>>,
         Owed(r)' = Owed(r)
  PROVE  Balanced(r)'
<1>1. /\ Occurrences(r)' = Occurrences(r)
      /\ Adders(r)' = Adders(r)
  BY DEF Occurrences, Adders
<1>2. Poppers(r)' = Poppers(r)
  BY DEF Poppers, TypeOK
<1>3. Cardinality(Servers(r))' = Cardinality(Servers(r)) - One(r, serving[w])
  BY ServersClear
<1>4. event_ref_'[r] = event_ref_[r] - One(r, serving[w]) /\ One(r, serving[w]) \in Nat
  BY DEF One, TypeOK
<1> QED
  BY <1>1, <1>2, <1>3, <1>4, CountTypes, LenType DEF Balanced

-----------------------------------------------------------------------------
(* A step keeps the books of every stage balanced. *)
LEMMA BalanceStep ==
  ASSUME TypeOK, ControlInv, RefCount, QueueCoversTickets, [Next]_vars,
         NEW r \in AllStages
  PROVE  Balanced(r)'
<1> USE BalancedStages
<1>1. ASSUME NEW t \in Threads, Schedule(t)
      PROVE  Balanced(r)'
  <2>1. /\ adding[t] \in AllStages
        /\ adding' = [adding EXCEPT ![t] = None]
        /\ UNCHANGED <<event_list_, event_ref_, connected_, serving, cpc, target, backlog>>
    BY <1>1 DEF Schedule, TypeOK, stageVars, ctrlVars
  <2>2. /\ run_queue_' = Append(run_queue_, adding[t])
        /\ Poppers(r)' = Poppers(r)
    BY <1>1, <2>1, ScheduleEffect, PoppersSignal DEF Schedule
  <2>3. Cardinality(Occurrences(r))' = Cardinality(Occurrences(r)) + One(r, adding[t])
    BY <2>1, <2>2, OccurrencesAppend
  <2>4. Cardinality(Adders(r))' = Cardinality(Adders(r)) - One(r, adding[t])
    BY <2>1, AddersClear
  <2>5. Servers(r)' = Servers(r) /\ Owed(r)' = Owed(r)
    BY <2>1, OwedUnchanged DEF Servers
  <2>6. One(r, adding[t]) \in Nat
    BY DEF One
  <2> DEFINE one == One(r, adding[t])
             occ == Cardinality(Occurrences(r))
             add == Cardinality(Adders(r))
             ser == Cardinality(Servers(r))
             pop == Cardinality(Poppers(r))
             len == Len(event_list_[r])
  <2>10. /\ occ' = occ + one /\ add' = add - one /\ ser' = ser /\ pop' = pop /\ len' = len
         /\ Owed(r)' = Owed(r) /\ event_ref_'[r] = event_ref_[r]
         /\ connected_'[r] = connected_[r]
    BY <2>1, <2>2, <2>3, <2>4, <2>5
  <2>11. /\ one \in Nat /\ occ \in Nat /\ add \in Nat /\ ser \in Nat /\ pop \in Nat
         /\ len \in Nat /\ Owed(r) \in Nat /\ event_ref_[r] \in Int
    BY <2>6, CountTypes, LenType
  <2>12. /\ event_ref_[r] = occ + add + ser + Owed(r)
         /\ len >= occ + add + pop + Owed(r)
         /\ connected_[r] => len = occ + add + pop + Owed(r)
    BY DEF Balanced
  <2>13. SUFFICES
           /\ event_ref_'[r] = occ' + add' + ser' + Owed(r)'
           /\ len' >= occ' + add' + pop' + Owed(r)'
           /\ connected_'[r] => len' = occ' + add' + pop' + Owed(r)'
    BY DEF Balanced
  <2> HIDE DEF one, occ, add, ser, pop, len
  <2> QED
    BY <2>10, <2>11, <2>12
<1>2. ASSUME NEW p \in Producers, NEW s \in Stages, NEW e \in Events, ProducerAdd(p, s,
             e)
      PROVE  Balanced(r)'
  <2>1. /\ p \in Threads /\ s \in AllStages /\ adding[p] = None
        /\ add_event(p, s, e)
        /\ UNCHANGED <<connected_, run_queue_, serving, wpc, cpc, target, backlog>>
    BY <1>2, ThreadKinds DEF ProducerAdd, AllStages, runVars, workVars, ctrlVars
  <2> QED
    BY <2>1, BalanceAdd, PoppersSame, OwedUnchanged
<1>3. ASSUME NEW w \in Workers, WorkerWait(w)
      PROVE  Balanced(r)'
  <2>1. /\ \E x : x # "popped" /\ wpc' = [wpc EXCEPT ![w] = x]
        /\ wpc[w] # "popped"
        /\ UNCHANGED <<event_list_, event_ref_, connected_, run_queue_, adding, serving,
                       cpc, target, backlog>>
    BY <1>3 DEF WorkerWait, stageVars, runVars, ctrlVars
  <2>2. Poppers(r)' = Poppers(r)
    BY <2>1 DEF Poppers, TypeOK
  <2> QED
    BY <2>1, <2>2, BalanceKept, OwedUnchanged
<1>4. ASSUME NEW w \in Workers, WorkerPop(w)
      PROVE  Balanced(r)'
  <2>1. /\ run_queue_ # <<>> /\ serving[w] = None
        /\ run_queue_' = Tail(run_queue_)
        /\ serving' = [serving EXCEPT ![w] = Head(run_queue_)]
        /\ wpc' = [wpc EXCEPT ![w] = "popped"]
        /\ UNCHANGED <<event_list_, event_ref_, connected_, adding, cpc, target, backlog>>
    BY <1>4 DEF WorkerPop, pop_stage, ControlInv, WorkerControl, stageVars, ctrlVars
  <2>2. Head(run_queue_) \in AllStages
    BY <2>1 DEF TypeOK
  <2>3. Cardinality(Occurrences(r))' = Cardinality(Occurrences(r)) - One(r, Head(run_queue_))
    BY <2>1, OccurrencesTail
  <2>4. Cardinality(Servers(r))' = Cardinality(Servers(r)) + One(r, Head(run_queue_))
    BY <2>1, <2>2, ServersSet
  <2>5. Cardinality(Poppers(r))' = Cardinality(Poppers(r)) + One(r, Head(run_queue_))
    BY <2>1, <2>2, PoppersSet
  <2>6. Adders(r)' = Adders(r) /\ Owed(r)' = Owed(r)
    BY <2>1, OwedUnchanged DEF Adders
  <2>7. One(r, Head(run_queue_)) \in Nat
    BY DEF One
  <2> QED
    BY <2>1, <2>3, <2>4, <2>5, <2>6, <2>7, CountTypes DEF Balanced
<1>5. ASSUME NEW w \in Workers, RemoveEvent(w)
      PROVE  Balanced(r)'
  <2>1. /\ wpc[w] = "popped" /\ event_list_[serving[w]] # <<>>
        /\ event_list_' = [event_list_ EXCEPT ![serving[w]] = Tail(event_list_[serving[w]])]
        /\ wpc' = [wpc EXCEPT ![w] = IF serving[w] = Killer THEN "kill" ELSE "handle"]
        /\ UNCHANGED <<run_queue_, event_ref_, connected_, serving, adding, cpc, target,
                       backlog>>
    BY <1>5 DEF RemoveEvent, dispatch, queue_of, runVars, ctrlVars
  <2>2. serving[w] \in AllStages
    BY <2>1 DEF TypeOK, ControlInv, WorkerControl
  <2>3. Cardinality(Poppers(r))' = Cardinality(Poppers(r)) - One(r, serving[w])
    <3>1. (IF serving[w] = Killer THEN "kill" ELSE "handle") # "popped"
      OBVIOUS
    <3> QED
      BY <2>1, <3>1, PoppersClear
  <2>4. Len(event_list_'[r]) = Len(event_list_[r]) - One(r, serving[w])
    BY <2>1, <2>2 DEF One, TypeOK
  <2>5. /\ Occurrences(r)' = Occurrences(r) /\ Adders(r)' = Adders(r)
        /\ Servers(r)' = Servers(r) /\ Owed(r)' = Owed(r)
    BY <2>1, OwedUnchanged DEF Occurrences, Adders, Servers
  <2>6. One(r, serving[w]) \in Nat
    BY DEF One
  <2> DEFINE one == One(r, serving[w])
             occ == Cardinality(Occurrences(r))
             add == Cardinality(Adders(r))
             ser == Cardinality(Servers(r))
             pop == Cardinality(Poppers(r))
             len == Len(event_list_[r])
  <2>10. /\ occ' = occ /\ add' = add /\ ser' = ser /\ pop' = pop - one /\ len' = len - one
         /\ Owed(r)' = Owed(r) /\ event_ref_'[r] = event_ref_[r]
         /\ connected_'[r] = connected_[r]
    BY <2>1, <2>3, <2>4, <2>5
  <2>11. /\ one \in Nat /\ occ \in Nat /\ add \in Nat /\ ser \in Nat /\ pop \in Nat
         /\ len \in Nat /\ Owed(r) \in Nat /\ event_ref_[r] \in Int
    BY <2>6, CountTypes, LenType
  <2>12. /\ event_ref_[r] = occ + add + ser + Owed(r)
         /\ len >= occ + add + pop + Owed(r)
         /\ connected_[r] => len = occ + add + pop + Owed(r)
    BY DEF Balanced
  <2>13. SUFFICES
           /\ event_ref_'[r] = occ' + add' + ser' + Owed(r)'
           /\ len' >= occ' + add' + pop' + Owed(r)'
           /\ connected_'[r] => len' = occ' + add' + pop' + Owed(r)'
    BY DEF Balanced
  <2> HIDE DEF one, occ, add, ser, pop, len
  <2> QED
    BY <2>10, <2>11, <2>12
<1>6. ASSUME NEW w \in Workers, HandleDone(w)
      PROVE  Balanced(r)'
  <2>1. /\ \E x : x # "popped" /\ wpc' = [wpc EXCEPT ![w] = x]
        /\ wpc[w] # "popped"
        /\ UNCHANGED <<event_list_, event_ref_, connected_, run_queue_, adding, serving,
                       cpc, target, backlog>>
    BY <1>6 DEF HandleDone, stageVars, runVars, ctrlVars
  <2>2. Poppers(r)' = Poppers(r)
    BY <2>1 DEF Poppers, TypeOK
  <2> QED
    BY <2>1, <2>2, BalanceKept, OwedUnchanged
<1>7. ASSUME NEW w \in Workers, NEW s \in Stages, HandleForward(w, s)
      PROVE  Balanced(r)'
  <2>1. /\ w \in Threads /\ s \in AllStages /\ wpc[w] = "handle"
        /\ add_event(w, s, ev[w])
        /\ wpc' = [wpc EXCEPT ![w] = "release"]
        /\ UNCHANGED <<connected_, run_queue_, serving, cpc, target, backlog>>
    BY <1>7, ThreadKinds DEF HandleForward, AllStages, runVars, ctrlVars
  <2>2. adding[w] = None
    BY <2>1 DEF ControlInv, WorkerControl
  <2>3. Poppers(r)' = Poppers(r)
    BY <2>1 DEF Poppers, TypeOK
  <2> QED
    BY <2>1, <2>2, <2>3, BalanceAdd, OwedUnchanged
<1>8. ASSUME NEW w \in Workers, ReleaseEvent(w)
      PROVE  Balanced(r)'
  <2>1. /\ wpc[w] = "release"
        /\ serving' = [serving EXCEPT ![w] = None]
        /\ wpc' = [wpc EXCEPT ![w] = "loop"]
        /\ event_ref_' = [event_ref_ EXCEPT ![serving[w]] = event_ref_[serving[w]] - 1]
        /\ UNCHANGED <<event_list_, connected_, run_queue_, adding, target, backlog>>
    BY <1>8 DEF ReleaseEvent, release_event, drop_reference, runVars
  <2>2. serving[w] \in AllStages
    BY <2>1 DEF TypeOK, ControlInv, WorkerControl
  <2>3. \/ cpc' = cpc
        \/ \E d \in Controllers :
             cpc[d] = "dwait" /\ cpc' = [cpc EXCEPT ![d] = "dwoken"]
    BY <1>8, ReleaseEffect DEF ReleaseEvent
  <2>4. Owed(r)' = Owed(r)
    BY <2>1, <2>3, OwedUnchanged, OwedKept
  <2> QED
    BY <2>1, <2>2, <2>4, BalanceRelease
<1>9. ASSUME NEW w \in Workers, ThreadKill(w)
      PROVE  Balanced(r)'
  <2>1. /\ wpc[w] = "kill"
        /\ wpc' = [wpc EXCEPT ![w] = "killed"]
        /\ UNCHANGED <<event_list_, event_ref_, connected_, run_queue_, adding, serving,
                       target, backlog>>
    BY <1>9 DEF ThreadKill, count_kill, stageVars, runVars
  <2>2. \/ cpc' = cpc
        \/ \E d \in Controllers :
             cpc[d] = "kwait" /\ cpc' = [cpc EXCEPT ![d] = "kwoken"]
    BY <1>9, ThreadKillEffect
  <2>3. Owed(r)' = Owed(r)
    BY <2>1, <2>2, OwedUnchanged, OwedKept
  <2>4. Poppers(r)' = Poppers(r)
    BY <2>1 DEF Poppers, TypeOK
  <2> QED
    BY <2>1, <2>3, <2>4, BalanceKept
<1>10. ASSUME NEW w \in Workers, KillExit(w)
      PROVE  Balanced(r)'
  <2>1. /\ wpc[w] = "killed"
        /\ serving' = [serving EXCEPT ![w] = None]
        /\ wpc' = [wpc EXCEPT ![w] = "none"]
        /\ event_ref_' = [event_ref_ EXCEPT ![serving[w]] = event_ref_[serving[w]] - 1]
        /\ UNCHANGED <<event_list_, connected_, run_queue_, adding, target, backlog>>
    BY <1>10 DEF KillExit, release_event, drop_reference, runVars
  <2>2. serving[w] \in AllStages
    BY <2>1 DEF TypeOK, ControlInv, WorkerControl
  <2>3. \/ cpc' = cpc
        \/ \E d \in Controllers :
             cpc[d] = "dwait" /\ cpc' = [cpc EXCEPT ![d] = "dwoken"]
    BY <1>10, ReleaseEffect DEF KillExit
  <2>4. Owed(r)' = Owed(r)
    BY <2>1, <2>3, OwedUnchanged, OwedKept
  <2> QED
    BY <2>1, <2>2, <2>4, BalanceRelease
<1>11. ASSUME NEW c \in Controllers, ConnectSchedule(c)
      PROVE  Balanced(r)'
  <2>1. /\ backlog[c] > 0
        /\ backlog' = [backlog EXCEPT ![c] = backlog[c] - 1]
        /\ UNCHANGED <<event_list_, event_ref_, connected_, serving, adding, cpc, target>>
    BY <1>11 DEF ConnectSchedule, schedule_backlog, stageVars
  <2>2. target[c] \in AllStages
    BY <2>1 DEF TypeOK, ControlInv, ControllerControl
  <2>3. /\ run_queue_' = Append(run_queue_, target[c])
        /\ Poppers(r)' = Poppers(r)
    BY <1>11, <2>1, ScheduleEffect, PoppersSignal DEF ConnectSchedule, schedule_backlog
  <2>4. Cardinality(Occurrences(r))' = Cardinality(Occurrences(r)) + One(r, target[c])
    BY <2>2, <2>3, OccurrencesAppend
  <2>5. Owed(r)' = Owed(r) - One(r, target[c])
    BY <2>1, OwedSchedule DEF ControlInv
  <2>6. Servers(r)' = Servers(r) /\ Adders(r)' = Adders(r)
    BY <2>1 DEF Servers, Adders
  <2>7. One(r, target[c]) \in Nat
    BY DEF One
  <2> QED
    BY <2>1, <2>3, <2>4, <2>5, <2>6, <2>7, CountTypes DEF Balanced
<1>12. ASSUME NEW c \in Controllers, ConnectReturn(c)
      PROVE  Balanced(r)'
  <2>1. /\ cpc[c] = "connect" /\ backlog[c] = 0
        /\ cpc' = [cpc EXCEPT ![c] = "ready"]
        /\ target' = [target EXCEPT ![c] = None]
        /\ UNCHANGED <<event_list_, event_ref_, connected_, run_queue_, adding, serving,
                       wpc, backlog>>
    BY <1>12 DEF ConnectReturn, stageVars, runVars, workVars
  <2>2. Owed(r)' = Owed(r)
    BY <2>1, OwedReturn DEF ControlInv
  <2> QED
    BY <2>1, <2>2, BalanceKept, PoppersSame
<1>13. ASSUME NEW c \in Controllers, DisconnectResume(c)
      PROVE  Balanced(r)'
  <2>1. /\ cpc[c] = "dwoken"
        /\ connected_'[r] => connected_[r]
        /\ UNCHANGED <<event_list_, event_ref_, run_queue_, adding, serving, wpc, backlog>>
    BY <1>13 DEF DisconnectResume, runVars, workVars, TypeOK
  <2>2. \E x \in {"dwait", "ready"} : \E v :
          cpc' = [cpc EXCEPT ![c] = x] /\ target' = [target EXCEPT ![c] = v]
    BY <1>13, DisconnectEffect DEF DisconnectResume, Waits, Finishes
  <2>3. Owed(r)' = Owed(r)
    BY <2>1, <2>2, OwedKept
  <2> QED
    BY <2>1, <2>3, BalanceKept, PoppersSame
<1>14. ASSUME NEW c \in Controllers, GenKillEvent(c)
      PROVE  Balanced(r)'
  <2>1. /\ c \in Threads /\ Killer \in AllStages /\ adding[c] = None
        /\ add_event(c, Killer, KillEvent)
        /\ UNCHANGED <<connected_, run_queue_, serving, wpc, cpc, target, backlog>>
    BY <1>14, ThreadKinds DEF GenKillEvent, AllStages, runVars, workVars
  <2> QED
    BY <2>1, BalanceAdd, PoppersSame, OwedUnchanged
<1>15. ASSUME NEW c \in Controllers, KillWait(c)
      PROVE  Balanced(r)'
  <2>1. /\ cpc[c] = "kgen" /\ backlog[c] = 0
        /\ cpc' = [cpc EXCEPT ![c] = "kwait"]
        /\ target' = [target EXCEPT ![c] = None]
        /\ UNCHANGED <<event_list_, event_ref_, connected_, run_queue_, adding, serving,
                       wpc, backlog>>
    BY <1>15 DEF KillWait, begin_kill_wait, stageVars, runVars, workVars
  <2>2. Owed(r)' = Owed(r)
    BY <2>1, OwedReturn DEF ControlInv
  <2> QED
    BY <2>1, <2>2, BalanceKept, PoppersSame
<1>16. ASSUME NEW c \in Controllers, KillResume(c)
      PROVE  Balanced(r)'
  <2>1. /\ cpc[c] = "kwoken"
        /\ connected_'[r] => connected_[r]
        /\ UNCHANGED <<event_list_, event_ref_, run_queue_, adding, serving, wpc, backlog>>
    BY <1>16 DEF KillResume, begin_disconnect, runVars, workVars, TypeOK
  <2>2. \E x \in {"dwait", "ready"} : \E v :
          cpc' = [cpc EXCEPT ![c] = x] /\ target' = [target EXCEPT ![c] = v]
    BY <1>16, DisconnectEffect DEF KillResume, begin_disconnect, Waits, Finishes
  <2>3. Owed(r)' = Owed(r)
    BY <2>1, <2>2, OwedKept
  <2> QED
    BY <2>1, <2>3, BalanceKept, PoppersSame
<1>17. ASSUME NEW c \in Controllers, NEW s \in Stages, SetPool(c, s)
      PROVE  Balanced(r)'
  <2>1. UNCHANGED <<event_list_, event_ref_, connected_, run_queue_, adding, serving, wpc,
                    cpc, target, backlog>>
    BY <1>17 DEF SetPool, runVars, workVars, ctrlVars
  <2> QED
    BY <2>1, BalanceKept, PoppersSame, OwedUnchanged
<1>18. ASSUME NEW c \in Controllers, NEW s \in Stages, Connect(c, s)
      PROVE  Balanced(r)'
  <2>1. /\ s \in AllStages
        /\ \A d \in Controllers : target[d] # s
        /\ target[c] = None
        /\ ~connected_[s]
    BY <1>18 DEF Connect, Owned, AllStages, ControlInv, ControllerControl
  <2>2. event_ref_[s] = 0
    BY <2>1 DEF ControlInv, StageControl, Closing
  <2>3. /\ backlog' = [backlog EXCEPT ![c] = Len(event_list_[s])]
        /\ event_ref_' = [event_ref_ EXCEPT ![s] = Len(event_list_[s])]
        /\ connected_' = [connected_ EXCEPT ![s] = TRUE]
        /\ target' = [target EXCEPT ![c] = s]
        /\ cpc' = [cpc EXCEPT ![c] = "connect"]
        /\ UNCHANGED <<event_list_, run_queue_, adding, serving, wpc>>
    BY <1>18 DEF Connect, begin_connect, connect_with, runVars, workVars
  <2> QED
    BY <2>1, <2>2, <2>3, BalanceConnect
<1>19. ASSUME NEW c \in Controllers, NEW s \in Stages, Disconnect(c, s)
      PROVE  Balanced(r)'
  <2>1. /\ cpc[c] = "ready"
        /\ connected_'[r] => connected_[r]
        /\ UNCHANGED <<event_list_, event_ref_, run_queue_, adding, serving, wpc, backlog>>
    BY <1>19 DEF Disconnect, begin_disconnect, runVars, workVars, TypeOK
  <2>2. \E x \in {"dwait", "ready"} : \E v :
          cpc' = [cpc EXCEPT ![c] = x] /\ target' = [target EXCEPT ![c] = v]
    BY <1>19, DisconnectEffect DEF Disconnect, begin_disconnect, Waits, Finishes
  <2>3. Owed(r)' = Owed(r)
    BY <2>1, <2>2, OwedKept
  <2> QED
    BY <2>1, <2>3, BalanceKept, PoppersSame
<1>20. ASSUME NEW c \in Controllers, NEW n \in AddSizes, AddThreads(c, n)
      PROVE  Balanced(r)'
  <2>1. UNCHANGED <<event_list_, event_ref_, connected_, run_queue_, adding, serving, cpc,
                    target, backlog>>
    BY <1>20 DEF AddThreads, stageVars, runVars, ctrlVars
  <2>2. \A w \in Workers : wpc'[w] = "popped" <=> wpc[w] = "popped"
    BY <1>20 DEF AddThreads
  <2>3. Poppers(r)' = Poppers(r)
    BY <2>1, <2>2 DEF Poppers
  <2> QED
    BY <2>1, <2>3, BalanceKept, OwedUnchanged
<1>21. ASSUME NEW c \in Controllers, NEW n \in KillSizes, KillThreads(c, n)
      PROVE  Balanced(r)'
  <2>1. /\ Killer \in AllStages
        /\ \A d \in Controllers : target[d] # Killer
        /\ target[c] = None /\ cpc[c] = "ready"
        /\ Starts(c) \/ Aborts(c)
        /\ UNCHANGED <<event_list_, run_queue_, adding, serving, wpc>>
    BY <1>21, KillThreadsEffect, KillerFree DEF AllStages, ControlInv, ControllerControl
  <2>2. CASE Starts(c)
    <3>1. event_ref_[Killer] = 0
      BY <2>1, <2>2 DEF Starts, ControlInv, StageControl, Closing
    <3> QED
      BY <2>1, <2>2, <3>1, BalanceConnect DEF Starts
  <2>3. CASE Aborts(c)
    <3>1. Owed(r)' = Owed(r)
      BY <2>1, <2>3, OwedKept DEF Aborts
    <3> QED
      BY <2>1, <2>3, <3>1, BalanceKept, PoppersSame DEF Aborts
  <2> QED
    BY <2>1, <2>2, <2>3
<1>22. ASSUME NEW w \in Workers, SpuriousRun(w)
      PROVE  Balanced(r)'
  <2>1. /\ \E x : x # "popped" /\ wpc' = [wpc EXCEPT ![w] = x]
        /\ wpc[w] # "popped"
        /\ UNCHANGED <<event_list_, event_ref_, connected_, run_queue_, adding, serving,
                       cpc, target, backlog>>
    BY <1>22 DEF SpuriousRun, stageVars, runVars, ctrlVars
  <2>2. Poppers(r)' = Poppers(r)
    BY <2>1 DEF Poppers, TypeOK
  <2> QED
    BY <2>1, <2>2, BalanceKept, OwedUnchanged
<1>23. ASSUME NEW c \in Controllers, SpuriousController(c)
      PROVE  Balanced(r)'
  <2>1. UNCHANGED <<event_list_, event_ref_, connected_, run_queue_, adding, serving, wpc,
                    target, backlog>>
    BY <1>23 DEF SpuriousController, stageVars, runVars, workVars
  <2>2. \/ cpc[c] = "dwait" /\ cpc' = [cpc EXCEPT ![c] = "dwoken"]
        \/ cpc[c] = "kwait" /\ cpc' = [cpc EXCEPT ![c] = "kwoken"]
    BY <1>23 DEF SpuriousController
  <2>3. Owed(r)' = Owed(r)
    BY <2>1, <2>2, OwedKept
  <2> QED
    BY <2>1, <2>3, BalanceKept, PoppersSame
<1>30. ASSUME UNCHANGED vars PROVE Balanced(r)'
  BY <1>30, BalanceKept, PoppersSame, OwedUnchanged DEF vars, stageVars, runVars,
     workVars, ctrlVars
<1> QED
  BY <1>1, <1>2, <1>3, <1>4, <1>5, <1>6, <1>7, <1>8, <1>9, <1>10, <1>11, <1>12, <1>13,
     <1>14, <1>15, <1>16, <1>17, <1>18, <1>19, <1>20, <1>21, <1>22, <1>23, <1>30
  DEF Next, WorkerStep, ControllerStep, ControllerCall

-----------------------------------------------------------------------------

LiveAt(x) == IF x \in {"none", "killed"} THEN 0 ELSE 1
IdleAt(x) == IF x \in {"wait", "woken"} THEN 1 ELSE 0

LEMMA LiveFinite == IsFiniteSet(Live) /\ IsFiniteSet(Idling)
<1>1. Live \subseteq Workers /\ Idling \subseteq Workers /\ IsFiniteSet(Workers)
  BY ThreadAssumption DEF Live, Idling
<1> QED
  BY <1>1, FS_Subset

\* One worker moves, and the counters with it.
LEMMA CountMove ==
  ASSUME TypeOK, ThreadCounts, NEW w \in Workers, NEW x,
         wpc' = [wpc EXCEPT ![w] = x],
         nthreads_' = nthreads_ + LiveAt(x) - LiveAt(wpc[w]),
         n_idles_' = n_idles_ + IdleAt(x) - IdleAt(wpc[w])
  PROVE  ThreadCounts'
<1>1. /\ IsFiniteSet(Live) /\ IsFiniteSet(Idling)
      /\ Cardinality(Live) \in Nat /\ Cardinality(Idling) \in Nat
  BY LiveFinite, FS_CardinalityType
<1>2. nthreads_ = Cardinality(Live) /\ n_idles_ = Cardinality(Idling)
  BY DEF ThreadCounts
<1>3. wpc'[w] = x /\ \A v \in Workers \ {w} : wpc'[v] = wpc[v]
  BY DEF TypeOK
<1>4. Cardinality(Live)' = Cardinality(Live) + LiveAt(x) - LiveAt(wpc[w])
  <2>1. Live' = IF x \in {"none", "killed"} THEN Live \ {w} ELSE Live \cup {w}
    BY <1>3 DEF Live
  <2>2. w \in Live <=> wpc[w] \notin {"none", "killed"}
    BY DEF Live
  <2>3. /\ Cardinality(Live \ {w}) = IF w \in Live THEN Cardinality(Live) - 1
                                     ELSE Cardinality(Live)
        /\ Cardinality(Live \cup {w}) = IF w \in Live THEN Cardinality(Live)
                                        ELSE Cardinality(Live) + 1
    BY <1>1, FS_AddElement, FS_RemoveElement
  <2> QED
    BY <1>1, <2>1, <2>2, <2>3 DEF LiveAt
<1>5. Cardinality(Idling)' = Cardinality(Idling) + IdleAt(x) - IdleAt(wpc[w])
  <2>1. Idling' = IF x \in {"wait", "woken"} THEN Idling \cup {w} ELSE Idling \ {w}
    BY <1>3 DEF Idling
  <2>2. w \in Idling <=> wpc[w] \in {"wait", "woken"}
    BY DEF Idling
  <2>3. /\ Cardinality(Idling \ {w}) = IF w \in Idling THEN Cardinality(Idling) - 1
                                       ELSE Cardinality(Idling)
        /\ Cardinality(Idling \cup {w}) = IF w \in Idling THEN Cardinality(Idling)
                                          ELSE Cardinality(Idling) + 1
    BY <1>1, FS_AddElement, FS_RemoveElement
  <2> QED
    BY <1>1, <2>1, <2>2, <2>3 DEF IdleAt
<1> QED
  BY <1>2, <1>4, <1>5 DEF ThreadCounts

LEMMA CountSame ==
  ASSUME ThreadCounts, UNCHANGED <<wpc, nthreads_, n_idles_>>
  PROVE  ThreadCounts'
  BY DEF ThreadCounts, Live, Idling

\* A signal leaves the woken worker idle until it runs.
LEMMA CountSignal ==
  ASSUME TypeOK, ThreadCounts, UNCHANGED <<nthreads_, n_idles_>>,
         \/ wpc' = wpc
         \/ \E x \in Workers : wpc[x] = "wait" /\ wpc' = [wpc EXCEPT ![x] = "woken"]
  PROVE  ThreadCounts'
<1>1. CASE wpc' = wpc
  BY <1>1, CountSame
<1>2. ASSUME NEW x \in Workers, wpc[x] = "wait", wpc' = [wpc EXCEPT ![x] = "woken"]
      PROVE  ThreadCounts'
  <2>1. /\ nthreads_' = nthreads_ + LiveAt("woken") - LiveAt(wpc[x])
        /\ n_idles_' = n_idles_ + IdleAt("woken") - IdleAt(wpc[x])
    BY <1>2 DEF LiveAt, IdleAt, TypeOK
  <2> QED
    BY <1>2, <2>1, CountMove
<1> QED
  BY <1>1, <1>2

(* A step keeps nthreads_ and n_idles_ exact. *)
LEMMA CountStep ==
  ASSUME TypeOK, ThreadCounts, [Next]_vars
  PROVE  ThreadCounts'
<1>1. ASSUME NEW t \in Threads, Schedule(t)
      PROVE  ThreadCounts'
  <2>1. UNCHANGED <<nthreads_, n_idles_>> /\ schedule(t, adding[t])
    BY <1>1 DEF Schedule, countVars
  <2> QED
    BY <2>1, ScheduleEffect, CountSignal
<1>2. ASSUME NEW w \in Workers, WorkerWait(w)
      PROVE  ThreadCounts'
  <2>1. /\ wpc[w] \in {"loop", "woken"}
        /\ wpc' = [wpc EXCEPT ![w] = "wait"]
    BY <1>2 DEF WorkerWait, Woken
  <2>2. /\ nthreads_' = nthreads_ + LiveAt("wait") - LiveAt(wpc[w])
        /\ n_idles_' = n_idles_ + IdleAt("wait") - IdleAt(wpc[w])
    BY <1>2, <2>1 DEF WorkerWait, Woken, LiveAt, IdleAt, TypeOK, runVars, countVars
  <2> QED
    BY <2>1, <2>2, CountMove
<1>3. ASSUME NEW w \in Workers, WorkerPop(w)
      PROVE  ThreadCounts'
  <2>1. /\ wpc[w] \in {"loop", "woken"}
        /\ wpc' = [wpc EXCEPT ![w] = "popped"]
    BY <1>3 DEF WorkerPop, pop_stage, Woken
  <2>2. /\ nthreads_' = nthreads_ + LiveAt("popped") - LiveAt(wpc[w])
        /\ n_idles_' = n_idles_ + IdleAt("popped") - IdleAt(wpc[w])
    BY <1>3, <2>1
      DEF WorkerPop, pop_stage, Woken, LiveAt, IdleAt, TypeOK, runVars, countVars
  <2> QED
    BY <2>1, <2>2, CountMove
<1>4. ASSUME NEW w \in Workers, RemoveEvent(w)
      PROVE  ThreadCounts'
  <2> DEFINE x == IF serving[w] = Killer THEN "kill" ELSE "handle"
  <2>1. /\ wpc[w] \in {"popped"}
        /\ wpc' = [wpc EXCEPT ![w] = x]
    BY <1>4 DEF RemoveEvent, dispatch
  <2>2. /\ nthreads_' = nthreads_ + LiveAt(x) - LiveAt(wpc[w])
        /\ n_idles_' = n_idles_ + IdleAt(x) - IdleAt(wpc[w])
    BY <1>4, <2>1 DEF RemoveEvent, dispatch, LiveAt, IdleAt, TypeOK, runVars, countVars
  <2> QED
    BY <2>1, <2>2, CountMove
<1>5. ASSUME NEW w \in Workers, HandleDone(w)
      PROVE  ThreadCounts'
  <2>1. /\ wpc[w] \in {"handle"}
        /\ wpc' = [wpc EXCEPT ![w] = "release"]
    BY <1>5 DEF HandleDone
  <2>2. /\ nthreads_' = nthreads_ + LiveAt("release") - LiveAt(wpc[w])
        /\ n_idles_' = n_idles_ + IdleAt("release") - IdleAt(wpc[w])
    BY <1>5, <2>1 DEF HandleDone, LiveAt, IdleAt, TypeOK, runVars, countVars
  <2> QED
    BY <2>1, <2>2, CountMove
<1>6. ASSUME NEW w \in Workers, NEW s \in Stages, HandleForward(w, s)
      PROVE  ThreadCounts'
  <2>1. /\ wpc[w] \in {"handle"}
        /\ wpc' = [wpc EXCEPT ![w] = "release"]
    BY <1>6 DEF HandleForward
  <2>2. /\ nthreads_' = nthreads_ + LiveAt("release") - LiveAt(wpc[w])
        /\ n_idles_' = n_idles_ + IdleAt("release") - IdleAt(wpc[w])
    BY <1>6, <2>1 DEF HandleForward, LiveAt, IdleAt, TypeOK, runVars, countVars
  <2> QED
    BY <2>1, <2>2, CountMove
<1>7. ASSUME NEW w \in Workers, ReleaseEvent(w)
      PROVE  ThreadCounts'
  <2>1. /\ wpc[w] \in {"release"}
        /\ wpc' = [wpc EXCEPT ![w] = "loop"]
    BY <1>7 DEF ReleaseEvent
  <2>2. /\ nthreads_' = nthreads_ + LiveAt("loop") - LiveAt(wpc[w])
        /\ n_idles_' = n_idles_ + IdleAt("loop") - IdleAt(wpc[w])
    BY <1>7, <2>1 DEF ReleaseEvent, LiveAt, IdleAt, TypeOK, runVars, countVars
  <2> QED
    BY <2>1, <2>2, CountMove
<1>8. ASSUME NEW w \in Workers, ThreadKill(w)
      PROVE  ThreadCounts'
  <2>1. /\ wpc[w] \in {"kill"}
        /\ wpc' = [wpc EXCEPT ![w] = "killed"]
    BY <1>8 DEF ThreadKill, count_kill
  <2>2. /\ nthreads_' = nthreads_ + LiveAt("killed") - LiveAt(wpc[w])
        /\ n_idles_' = n_idles_ + IdleAt("killed") - IdleAt(wpc[w])
    BY <1>8, <2>1 DEF ThreadKill, count_kill, LiveAt, IdleAt, TypeOK, runVars, countVars
  <2> QED
    BY <2>1, <2>2, CountMove
<1>9. ASSUME NEW w \in Workers, KillExit(w)
      PROVE  ThreadCounts'
  <2>1. /\ wpc[w] \in {"killed"}
        /\ wpc' = [wpc EXCEPT ![w] = "none"]
    BY <1>9 DEF KillExit
  <2>2. /\ nthreads_' = nthreads_ + LiveAt("none") - LiveAt(wpc[w])
        /\ n_idles_' = n_idles_ + IdleAt("none") - IdleAt(wpc[w])
    BY <1>9, <2>1 DEF KillExit, LiveAt, IdleAt, TypeOK, runVars, countVars
  <2> QED
    BY <2>1, <2>2, CountMove
<1>10. ASSUME NEW c \in Controllers, ConnectSchedule(c)
      PROVE  ThreadCounts'
  <2>1. UNCHANGED <<nthreads_, n_idles_>> /\ schedule(c, target[c])
    BY <1>10 DEF ConnectSchedule, schedule_backlog, countVars
  <2> QED
    BY <2>1, ScheduleEffect, CountSignal
<1>11. ASSUME NEW c \in Controllers, NEW n \in AddSizes, AddThreads(c, n)
      PROVE  ThreadCounts'
  <2>1. PICK W \in SUBSET {w \in Workers : wpc[w] = "none"} :
          /\ wpc' = [w \in Workers |-> IF w \in W THEN "loop" ELSE wpc[w]]
          /\ nthreads_' = nthreads_ + Cardinality(W)
          /\ n_idles_' = n_idles_
    BY <1>11 DEF AddThreads, runVars
  <2>2. Idling' = Idling /\ Live' = Live \cup W /\ Live \cap W = {}
    BY <2>1 DEF Idling, Live
  <2>3. IsFiniteSet(W)
    <3>1. W \subseteq Workers /\ IsFiniteSet(Workers)
      BY <2>1, ThreadAssumption
    <3> QED
      BY <3>1, FS_Subset
  <2>4. Cardinality(Live \cup W) = Cardinality(Live) + Cardinality(W) - Cardinality(Live \cap W)
    BY <2>3, LiveFinite, FS_Union
  <2>5. Cardinality(Live \cap W) = 0
    BY <2>2, FS_EmptySet
  <2>6. Cardinality(Live) \in Nat /\ Cardinality(W) \in Nat
    BY <2>3, LiveFinite, FS_CardinalityType
  <2> QED
    BY <2>1, <2>2, <2>4, <2>5, <2>6 DEF ThreadCounts
<1>12. ASSUME NEW w \in Workers, SpuriousRun(w)
      PROVE  ThreadCounts'
  <2>1. /\ wpc[w] \in {"wait"}
        /\ wpc' = [wpc EXCEPT ![w] = "woken"]
    BY <1>12 DEF SpuriousRun
  <2>2. /\ nthreads_' = nthreads_ + LiveAt("woken") - LiveAt(wpc[w])
        /\ n_idles_' = n_idles_ + IdleAt("woken") - IdleAt(wpc[w])
    BY <1>12, <2>1 DEF SpuriousRun, LiveAt, IdleAt, TypeOK, runVars, countVars
  <2> QED
    BY <2>1, <2>2, CountMove
<1>13. ASSUME NEW p \in Producers, NEW s \in Stages, NEW e \in Events,
             ProducerAdd(p, s, e)
      PROVE  ThreadCounts'
  BY <1>13, CountSame DEF ProducerAdd, runVars, countVars, workVars
<1>14. ASSUME NEW c \in Controllers,
             ConnectReturn(c) \/ DisconnectResume(c) \/ GenKillEvent(c) \/
             KillWait(c) \/ KillResume(c) \/ SpuriousController(c)
      PROVE  ThreadCounts'
  BY <1>14, CountSame
    DEF ConnectReturn, DisconnectResume, GenKillEvent, KillWait, KillResume,
        SpuriousController, begin_kill_wait, runVars, countVars, workVars
<1>15. ASSUME NEW c \in Controllers, NEW s \in Stages,
             SetPool(c, s) \/ Connect(c, s) \/ Disconnect(c, s)
      PROVE  ThreadCounts'
  BY <1>15, CountSame DEF SetPool, Connect, Disconnect, runVars, countVars, workVars
<1>16. ASSUME NEW c \in Controllers, NEW n \in KillSizes,
             KillThreads(c, n)
      PROVE  ThreadCounts'
  BY <1>16, CountSame DEF KillThreads, runVars, countVars, workVars
<1>17. ASSUME UNCHANGED vars PROVE ThreadCounts'
  BY <1>17, CountSame DEF vars, runVars, countVars, workVars
<1> QED
  BY <1>1, <1>2, <1>3, <1>4, <1>5, <1>6, <1>7, <1>8, <1>9, <1>10, <1>11, <1>12, <1>13,
     <1>14, <1>15, <1>16, <1>17
    DEF Next, WorkerStep, ControllerStep, ControllerCall

-----------------------------------------------------------------------------
(* Every queue is empty and every counter is zero in the constructed pool. *)
LEMMA InitInv == Init => IInv
<1> SUFFICES ASSUME Init PROVE IInv
  OBVIOUS
<1>1. TypeOK
  <2>1. Cardinality(InitialThreads) \in Int
    <3>1. IsFiniteSet(InitialThreads)
      BY ThreadAssumption, FS_Subset
    <3> QED
      BY <3>1, FS_CardinalityType
  <2>2. <<>> \in Seq(AllStages) /\ <<>> \in Seq(Events \cup {KillEvent})
    OBVIOUS
  <2> QED
    BY <2>1, <2>2 DEF Init, TypeOK, WorkerPC, ControllerPC
<1>2. WorkerControl /\ AdderControl /\ ControllerControl
  BY ThreadKinds, StageAssumption
  DEF Init, WorkerControl, AdderControl, ControllerControl
<1>3. QueueControl
  BY DEF Init, QueueControl, AllStages
<1>4. MutexControl /\ KillerControl /\ StageControl
  BY ThreadKinds
  DEF Init, MutexControl, KillerControl, InKill, StageControl, Closing, AllStages
<1>5. ASSUME NEW s \in AllStages
      PROVE  /\ Cardinality(Occurrences(s)) = 0 /\ Cardinality(Adders(s)) = 0
             /\ Cardinality(Servers(s)) = 0 /\ Cardinality(Poppers(s)) = 0
             /\ Owed(s) = 0
  <2>1. /\ Occurrences(s) = {} /\ Adders(s) = {} /\ Servers(s) = {}
        /\ Poppers(s) = {} /\ Connecting(s) = {}
    BY StageAssumption DEF Init, Occurrences, Adders, Servers, Poppers, Connecting
  <2> QED
    BY <2>1, FS_EmptySet DEF Owed
<1>6. \A s \in AllStages : event_ref_[s] = 0 /\ Len(event_list_[s]) = 0
  BY DEF Init
<1>7. RefCount
  BY <1>5, <1>6 DEF RefCount
<1>8. QueueCoversTickets
  BY <1>5, <1>6 DEF QueueCoversTickets, Tickets
<1>9. ThreadCounts
  <2>1. Live = InitialThreads /\ Idling = {}
    BY ThreadAssumption DEF Init, Live, Idling
  <2> QED
    BY <2>1, FS_EmptySet DEF Init, ThreadCounts
<1> QED
  BY <1>1, <1>2, <1>3, <1>4, <1>7, <1>8, <1>9 DEF IInv, ControlInv

(* IInv is inductive. *)
LEMMA StepInv == IInv /\ [Next]_vars => IInv'
<1> SUFFICES ASSUME IInv, [Next]_vars PROVE IInv'
  OBVIOUS
<1>1. TypeOK /\ ControlInv /\ RefCount /\ QueueCoversTickets /\ ThreadCounts
  BY DEF IInv
<1>2. nthreads_ \in Nat
  BY <1>1, LiveFinite, FS_CardinalityType DEF ThreadCounts
<1>3. TypeOK'
  BY <1>1, <1>2, TypeStep
<1>4. ControlInv'
  BY <1>1, ControlStep
<1>5. \A r \in AllStages : Balanced(r)'
  BY <1>1, BalanceStep
<1>6. RefCount' /\ QueueCoversTickets'
  BY <1>5 DEF Balanced, RefCount, QueueCoversTickets, Tickets
<1>7. ThreadCounts'
  BY <1>1, CountStep
<1> QED
  BY <1>3, <1>4, <1>6, <1>7 DEF IInv

(* The inductive invariant holds in every reachable state of the stages    *)
(* and their thread pool.                                                  *)
THEOREM InvariantHolds == Spec => []IInv
  BY InitInv, StepInv, PTL DEF Spec

(* Every field of Stage and Threadpool keeps its type.                     *)
THEOREM TypeCorrect == Spec => []TypeOK
<1>1. IInv => TypeOK
  BY DEF IInv
<1> QED
  BY <1>1, InvariantHolds, PTL

(* Stage::event_ref_ is exact: no add_event(), connect() or release_event()*)
(* ever leaves a reference too many or too few.                            *)
THEOREM ReferencesAreExact == Spec => []RefCount
<1>1. IInv => RefCount
  BY DEF IInv
<1> QED
  BY <1>1, InvariantHolds, PTL

(* A worker that took a stage from the run queue finds an event on the     *)
(* stage's queue, and a connected stage has no event without a service:    *)
(* remove_event()'s assertion never fails.                                 *)
THEOREM QueuesCoverTickets == Spec => []QueueCoversTickets
<1>1. IInv => QueueCoversTickets
  BY DEF IInv
<1> QED
  BY <1>1, InvariantHolds, PTL

(* No summand of a sum that is zero is positive. *)
LEMMA NoSummand ==
  ASSUME NEW i \in Nat, NEW j \in Nat, NEW k \in Nat, NEW l \in Nat, 0 = i + j + k + l
  PROVE  i = 0 /\ j = 0 /\ k = 0
  OBVIOUS

(* A stage without references, connection or disconnect() under way is the *)
(* only one whose th_pool_ is cleared.                                     *)
LEMMA ClearedStageIsUnused == IInv => NoUseAfterDisconnect
<1> SUFFICES ASSUME IInv, NEW s \in AllStages, ~th_pool_[s]
             PROVE  Adders(s) = {} /\ Servers(s) = {} /\ Occurrences(s) = {}
  BY DEF NoUseAfterDisconnect
<1>1. TypeOK /\ RefCount /\ StageControl
  BY DEF IInv, ControlInv
<1>2. event_ref_[s] = 0
  BY <1>1 DEF StageControl
<1>3. /\ Cardinality(Adders(s)) = 0 /\ Cardinality(Servers(s)) = 0
      /\ Cardinality(Occurrences(s)) = 0
  <2>1. 0 = Cardinality(Occurrences(s)) + Cardinality(Adders(s))
            + Cardinality(Servers(s)) + Owed(s)
    BY <1>1, <1>2 DEF RefCount
  <2>2. /\ Cardinality(Occurrences(s)) \in Nat /\ Cardinality(Adders(s)) \in Nat
        /\ Cardinality(Servers(s)) \in Nat /\ Owed(s) \in Nat
    BY <1>1, CountTypes
  <2> QED
    BY <2>1, <2>2, NoSummand
<1> QED
  BY <1>1, <1>3, CountTypes, FS_EmptySet

(* disconnect() never clears th_pool_ while an adder is about to read it,  *)
(* an entry of the run queue leads to it or a worker handles its event.    *)
THEOREM StagesOutliveTheirUsers == Spec => []NoUseAfterDisconnect
  BY ClearedStageIsUnused, InvariantHolds, PTL

(* nthreads_ and n_idles_ are exact under creation, wakeups and kills.     *)
THEOREM ThreadsAreCounted == Spec => []ThreadCounts
<1>1. IInv => ThreadCounts
  BY DEF IInv
<1> QED
  BY <1>1, InvariantHolds, PTL

-----------------------------------------------------------------------------

(* Kill events: those queued and those being acted upon.                   *)

LEMMA KillTypes ==
  ASSUME TypeOK
  PROVE  /\ IsFiniteSet(Killing) /\ Cardinality(Killing) \in Nat
         /\ Len(event_list_[Killer]) \in Nat
<1>1. Killing \subseteq Workers /\ IsFiniteSet(Workers)
  BY ThreadAssumption DEF Killing
<1>2. Killer \in AllStages
  BY DEF AllStages
<1> QED
  BY <1>1, <1>2, LenType, FS_Subset, FS_CardinalityType

\* A step that moves no kill event and begins or ends no generation.
LEMMA KillKept ==
  ASSUME KillControl, event_list_'[Killer] = event_list_[Killer], Killing' = Killing,
         UNCHANGED <<threads_to_kill_, gen, kills>>,
         \A d \in Controllers : cpc'[d] = "kgen" <=> cpc[d] = "kgen"
  PROVE  KillControl'
  BY DEF KillControl

LEMMA KillingBegins ==
  ASSUME TypeOK, NEW w \in Workers, wpc[w] # "kill", wpc' = [wpc EXCEPT ![w] = "kill"]
  PROVE  Cardinality(Killing)' = Cardinality(Killing) + 1
<1>1. Killing' = Killing \cup {w} /\ w \notin Killing
  BY DEF Killing, TypeOK
<1> QED
  BY <1>1, KillTypes, FS_AddElement

LEMMA KillingEnds ==
  ASSUME TypeOK, NEW w \in Workers, wpc[w] = "kill", wpc' = [wpc EXCEPT ![w] = "killed"]
  PROVE  Cardinality(Killing)' = Cardinality(Killing) - 1
<1>1. Killing' = Killing \ {w} /\ w \in Killing
  BY DEF Killing, TypeOK
<1> QED
  BY <1>1, KillTypes, FS_RemoveElement

\* A signal on run_cond_ makes nobody act upon a kill event.
LEMMA KillingSignal ==
  ASSUME TypeOK,
         \/ wpc' = wpc
         \/ \E x \in Workers : wpc[x] = "wait" /\ wpc' = [wpc EXCEPT ![x] = "woken"]
  PROVE  Killing' = Killing
  BY DEF Killing, TypeOK

(* Every kill event a kill_threads() call asks for is generated, taken off *)
(* killer_'s queue and counted off exactly once.                           *)
LEMMA KillStep ==
  ASSUME TypeOK, ControlInv, KillControl, [Next]_vars
  PROVE  KillControl'
<1>0. Killer \in AllStages /\ \A s \in Stages : s \in AllStages /\ s # Killer
  BY StageAssumption DEF AllStages
<1>1. ASSUME NEW t \in Threads, Schedule(t)
      PROVE  KillControl'
  <2>1. /\ schedule(t, adding[t])
        /\ UNCHANGED <<event_list_, threads_to_kill_, cpc, gen, kills>>
    BY <1>1 DEF Schedule, stageVars, countVars, ctrlVars
  <2> QED
    BY <2>1, ScheduleEffect, KillingSignal, KillKept
<1>2. ASSUME NEW p \in Producers, NEW s \in Stages, NEW e \in Events,
             ProducerAdd(p, s, e)
      PROVE  KillControl'
  <2>1. /\ event_list_' = [event_list_ EXCEPT ![s] = Append(@, e)]
        /\ UNCHANGED <<wpc, threads_to_kill_, cpc, gen, kills>>
    BY <1>2 DEF ProducerAdd, add_event, countVars, workVars, ctrlVars
  <2> QED
    BY <1>0, <2>1, KillKept DEF Killing, TypeOK
<1>3. ASSUME NEW w \in Workers,
             WorkerWait(w) \/ WorkerPop(w) \/ HandleDone(w) \/ SpuriousRun(w)
      PROVE  KillControl'
  <2>1. /\ \E x : x # "kill" /\ wpc[w] # "kill" /\ wpc' = [wpc EXCEPT ![w] = x]
        /\ UNCHANGED <<event_list_, threads_to_kill_, cpc, gen, kills>>
    BY <1>3 DEF WorkerWait, WorkerPop, pop_stage, HandleDone, SpuriousRun, stageVars,
                countVars, ctrlVars
  <2>2. Killing' = Killing
    BY <2>1 DEF Killing, TypeOK
  <2> QED
    BY <2>1, <2>2, KillKept
<1>4. ASSUME NEW w \in Workers, NEW s \in Stages, HandleForward(w, s)
      PROVE  KillControl'
  <2>1. /\ event_list_' = [event_list_ EXCEPT ![s] = Append(@, ev[w])]
        /\ wpc[w] = "handle" /\ wpc' = [wpc EXCEPT ![w] = "release"]
        /\ UNCHANGED <<threads_to_kill_, cpc, gen, kills>>
    BY <1>4 DEF HandleForward, add_event, countVars, ctrlVars
  <2>2. event_list_'[Killer] = event_list_[Killer]
    BY <1>0, <2>1 DEF TypeOK
  <2>3. Killing' = Killing
    BY <2>1 DEF Killing, TypeOK
  <2> QED
    BY <2>1, <2>2, <2>3, KillKept
<1>5. ASSUME NEW w \in Workers, ReleaseEvent(w) \/ KillExit(w)
      PROVE  KillControl'
  <2>1. /\ \E x : x # "kill" /\ wpc[w] # "kill" /\ wpc' = [wpc EXCEPT ![w] = x]
        /\ release_event(serving[w])
        /\ UNCHANGED <<event_list_, threads_to_kill_, gen, kills>>
    BY <1>5 DEF ReleaseEvent, KillExit, countVars
  <2>2. \A d \in Controllers : cpc'[d] = "kgen" <=> cpc[d] = "kgen"
    <3>1. \/ cpc' = cpc
          \/ \E d \in Controllers : cpc[d] = "dwait" /\ cpc' = [cpc EXCEPT ![d] = "dwoken"]
      BY <2>1, ReleaseEffect
    <3> QED
      BY <3>1 DEF TypeOK
  <2>3. Killing' = Killing
    BY <2>1 DEF Killing, TypeOK
  <2> QED
    BY <2>1, <2>2, <2>3, KillKept
<1>6. ASSUME NEW w \in Workers, RemoveEvent(w)
      PROVE  KillControl'
  <2>1. /\ wpc[w] = "popped" /\ event_list_[serving[w]] # <<>>
        /\ event_list_' = [event_list_ EXCEPT ![serving[w]] = Tail(queue_of(w))]
        /\ wpc' = [wpc EXCEPT ![w] = IF serving[w] = Killer THEN "kill" ELSE "handle"]
        /\ UNCHANGED <<threads_to_kill_, cpc, gen, kills>>
    BY <1>6 DEF RemoveEvent, dispatch, countVars, ctrlVars
  <2>2. CASE serving[w] = Killer
    <3>1. Cardinality(Killing)' = Cardinality(Killing) + 1
      BY <2>1, <2>2, KillingBegins
    <3>2. event_list_[Killer] \in Seq(Events \cup {KillEvent}) /\ event_list_[Killer] # <<>>
      BY <1>0, <2>1, <2>2 DEF TypeOK
    <3>3. event_list_'[Killer] = Tail(event_list_[Killer])
      BY <1>0, <2>1, <2>2 DEF TypeOK, queue_of
    <3>4. Len(event_list_'[Killer]) = Len(event_list_[Killer]) - 1
      BY <3>2, <3>3
    <3>5. \A i \in Nat : i + Len(event_list_'[Killer]) + Cardinality(Killing)'
                         = i + Len(event_list_[Killer]) + Cardinality(Killing)
      BY <3>1, <3>4, KillTypes
    <3>6. Len(event_list_'[Killer]) + Cardinality(Killing)'
            = Len(event_list_[Killer]) + Cardinality(Killing)
      BY <3>1, <3>4, KillTypes
    <3>7. gen \in [Controllers -> Nat]
      BY DEF TypeOK
    <3> QED
      BY <2>1, <3>5, <3>6, <3>7 DEF KillControl
  <2>3. CASE serving[w] # Killer
    <3>1. event_list_'[Killer] = event_list_[Killer]
      BY <1>0, <2>1, <2>3 DEF TypeOK
    <3>2. Killing' = Killing
      BY <2>1, <2>3 DEF Killing, TypeOK
    <3> QED
      BY <2>1, <3>1, <3>2, KillKept
  <2> QED
    BY <2>2, <2>3
<1>7. ASSUME NEW w \in Workers, ThreadKill(w)
      PROVE  KillControl'
  <2>1. /\ wpc[w] = "kill" /\ wpc' = [wpc EXCEPT ![w] = "killed"]
        /\ thread_mutex_ = None /\ threads_to_kill_' = threads_to_kill_ - 1
        /\ event_list_' = event_list_
    BY <1>7 DEF ThreadKill, count_kill, stageVars
  <2>2. \A d \in Controllers : cpc[d] # "kgen"
    BY <2>1, KillerFree DEF ControlInv
  <2>3. \A d \in Controllers : cpc'[d] # "kgen"
    BY <1>7, <2>2, ThreadKillEffect DEF TypeOK
  <2>4. Cardinality(Killing)' = Cardinality(Killing) - 1
    BY <2>1, KillingEnds
  <2> QED
    BY <2>1, <2>2, <2>3, <2>4, KillTypes DEF KillControl
<1>8. ASSUME NEW c \in Controllers, ConnectSchedule(c)
      PROVE  KillControl'
  <2>1. /\ schedule(c, target[c])
        /\ UNCHANGED <<event_list_, threads_to_kill_, cpc, gen, kills>>
    BY <1>8 DEF ConnectSchedule, schedule_backlog, stageVars, countVars
  <2> QED
    BY <2>1, ScheduleEffect, KillingSignal, KillKept
<1>9. ASSUME NEW c \in Controllers,
             ConnectReturn(c) \/ SpuriousController(c)
      PROVE  KillControl'
  <2>1. /\ \E x : x # "kgen" /\ cpc[c] # "kgen" /\ cpc' = [cpc EXCEPT ![c] = x]
        /\ UNCHANGED <<event_list_, wpc, threads_to_kill_, gen, kills>>
    BY <1>9 DEF ConnectReturn, SpuriousController, stageVars, countVars, workVars
  <2>2. \A d \in Controllers : cpc'[d] = "kgen" <=> cpc[d] = "kgen"
    BY <2>1 DEF TypeOK
  <2> QED
    BY <2>1, <2>2, KillKept DEF Killing
<1>10. ASSUME NEW c \in Controllers,
              DisconnectResume(c) \/ KillResume(c) \/ \E s \in Stages : Disconnect(c, s)
       PROVE  KillControl'
  <2>1. /\ cpc[c] # "kgen"
        /\ \E s : wait_or_finish(c, s)
        /\ UNCHANGED <<event_list_, wpc, threads_to_kill_, gen, kills>>
    BY <1>10 DEF DisconnectResume, KillResume, Disconnect, begin_disconnect, stageVars,
                 countVars, workVars
  <2>2. \A d \in Controllers : cpc'[d] = "kgen" <=> cpc[d] = "kgen"
    <3>1. \/ cpc' = [cpc EXCEPT ![c] = "dwait"]
          \/ cpc' = [cpc EXCEPT ![c] = "ready"]
      BY <2>1, DisconnectEffect DEF Waits, Finishes
    <3> QED
      BY <2>1, <3>1 DEF TypeOK
  <2> QED
    BY <2>1, <2>2, KillKept DEF Killing
<1>11. ASSUME NEW c \in Controllers, NEW s \in Stages, SetPool(c, s) \/ Connect(c, s)
       PROVE  KillControl'
  <2>1. /\ cpc[c] = "ready"
        /\ cpc' = cpc \/ cpc' = [cpc EXCEPT ![c] = "connect"]
        /\ UNCHANGED <<event_list_, wpc, threads_to_kill_, gen, kills>>
    BY <1>11 DEF SetPool, Connect, countVars, workVars, ctrlVars
  <2>2. \A d \in Controllers : cpc'[d] = "kgen" <=> cpc[d] = "kgen"
    BY <2>1 DEF TypeOK
  <2> QED
    BY <2>1, <2>2, KillKept DEF Killing
<1>12. ASSUME NEW c \in Controllers, NEW n \in AddSizes, AddThreads(c, n)
       PROVE  KillControl'
  <2>1. /\ \E W \in SUBSET {w \in Workers : wpc[w] = "none"} :
             wpc' = [w \in Workers |-> IF w \in W THEN "loop" ELSE wpc[w]]
        /\ UNCHANGED <<event_list_, threads_to_kill_, cpc, gen, kills>>
    BY <1>12 DEF AddThreads, stageVars, ctrlVars
  <2>2. Killing' = Killing
    BY <2>1 DEF Killing
  <2> QED
    BY <2>1, <2>2, KillKept
<1>13. ASSUME NEW c \in Controllers, GenKillEvent(c)
       PROVE  KillControl'
  <2>1. /\ cpc[c] = "kgen" /\ gen[c] > 0
        /\ event_list_' = [event_list_ EXCEPT ![Killer] = Append(@, KillEvent)]
        /\ gen' = [gen EXCEPT ![c] = @ - 1]
        /\ UNCHANGED <<wpc, cpc, kills>>
    BY <1>13 DEF GenKillEvent, add_event, workVars
  <2>2. \A d \in Controllers : cpc[d] = "kgen" => d = c
    BY <2>1 DEF ControlInv, KillerControl, InKill
  <2>3. event_list_[Killer] \in Seq(Events \cup {KillEvent})
    BY <1>0 DEF TypeOK
  <2>4. event_list_'[Killer] = Append(event_list_[Killer], KillEvent)
    BY <1>0, <2>1 DEF TypeOK
  <2>5. Len(event_list_'[Killer]) = Len(event_list_[Killer]) + 1
    BY <2>3, <2>4
  <2>6. Killing' = Killing
    BY <2>1 DEF Killing
  <2>7. gen[c] \in Nat /\ gen'[c] = gen[c] - 1
    BY <2>1 DEF TypeOK
  <2>8. kills[c] = gen'[c] + Len(event_list_'[Killer]) + Cardinality(Killing)
    BY <2>1, <2>5, <2>7, KillTypes DEF KillControl
  <2> QED
    BY <2>1, <2>2, <2>6, <2>8 DEF KillControl
<1>14. ASSUME NEW c \in Controllers, KillWait(c)
       PROVE  KillControl'
  <2>1. /\ cpc[c] = "kgen" /\ gen[c] = 0 /\ threads_to_kill_' = kills[c]
        /\ cpc' = [cpc EXCEPT ![c] = "kwait"]
        /\ UNCHANGED <<event_list_, wpc>>
    BY <1>14 DEF KillWait, begin_kill_wait, stageVars, workVars
  <2>2. \A d \in Controllers : cpc'[d] # "kgen"
    BY <2>1 DEF ControlInv, KillerControl, InKill, TypeOK
  <2>3. Killing' = Killing
    BY <2>1 DEF Killing
  <2>4. kills[c] = Len(event_list_[Killer]) + Cardinality(Killing)
    BY <2>1, KillTypes DEF KillControl
  <2> QED
    BY <2>1, <2>2, <2>3, <2>4 DEF KillControl
<1>15. ASSUME NEW c \in Controllers, NEW n \in KillSizes, KillThreads(c, n)
       PROVE  KillControl'
  <2>1. /\ cpc[c] = "ready" /\ thread_mutex_ = None /\ ~(threads_to_kill_ > 0)
        /\ UNCHANGED <<event_list_, wpc, threads_to_kill_>>
    BY <1>15, KillThreadsEffect DEF KillThreads
  <2>2. \A d \in Controllers : cpc[d] # "kgen"
    BY <2>1, KillerFree DEF ControlInv
  <2>3. Killing' = Killing
    BY <2>1 DEF Killing
  <2>4. Len(event_list_[Killer]) = 0 /\ Cardinality(Killing) = 0
    BY <2>1, <2>2, KillTypes DEF KillControl
  <2>5. CASE connected_[Killer]
    <3>1. cpc' = [cpc EXCEPT ![c] = "aborted"] /\ UNCHANGED <<gen, kills>>
      BY <1>15, <2>5 DEF KillThreads
    <3>2. \A d \in Controllers : cpc'[d] # "kgen"
      BY <2>2, <3>1 DEF TypeOK
    <3> QED
      BY <2>1, <2>2, <2>3, <3>1, <3>2, KillKept
  <2>6. CASE ~connected_[Killer]
    <3> DEFINE i == IF n > nthreads_ THEN nthreads_ ELSE n
    <3>1. /\ cpc' = [cpc EXCEPT ![c] = "kgen"]
          /\ gen' = [gen EXCEPT ![c] = i] /\ kills' = [kills EXCEPT ![c] = i]
      BY <1>15, <2>6 DEF KillThreads
    <3>2. i \in Int
      BY SizeAssumption DEF TypeOK
    <3> HIDE DEF i
    <3>3. gen'[c] = i /\ kills'[c] = i
      BY <3>1 DEF TypeOK
    <3>4. cpc'[c] = "kgen" /\ \A d \in Controllers : cpc'[d] = "kgen" => d = c
      BY <2>2, <3>1 DEF TypeOK
    <3>5. i = i + Len(event_list_'[Killer]) + Cardinality(Killing)'
      BY <2>1, <2>3, <2>4, <3>2
    <3> QED
      BY <3>3, <3>4, <3>5 DEF KillControl
  <2> QED
    BY <2>5, <2>6
<1>16. ASSUME UNCHANGED vars PROVE KillControl'
  BY <1>16, KillKept DEF vars, stageVars, countVars, workVars, ctrlVars, Killing
<1> QED
  BY <1>1, <1>2, <1>3, <1>4, <1>5, <1>6, <1>7, <1>8, <1>9, <1>10, <1>11, <1>12, <1>13,
     <1>14, <1>15, <1>16
  DEF Next, WorkerStep, ControllerStep, ControllerCall

(* Once kill_threads() waits, threads_to_kill_ is the number of kill events*)
(* no thread has acted upon: its wait ends exactly with the last death.    *)
THEOREM KillEventsAreCounted == Spec => []KillCount
<1>1. Init => KillControl
  <2> SUFFICES ASSUME Init PROVE KillControl
    OBVIOUS
  <2>1. Killing = {} /\ event_list_[Killer] = <<>> /\ threads_to_kill_ = 0
    BY DEF Init, Killing, AllStages
  <2>2. \A c \in Controllers : cpc[c] # "kgen"
    BY DEF Init
  <2> QED
    BY <2>1, <2>2, FS_EmptySet DEF KillControl
<1>2. IInv /\ KillControl /\ [Next]_vars => KillControl'
  BY KillStep DEF IInv
<1>3. KillControl => KillCount
  BY DEF KillControl, KillCount, Killing
<1> QED
  BY <1>1, <1>2, <1>3, InvariantHolds, PTL DEF Spec

(* With one thread that resizes the pool, a kill transaction begins only   *)
(* after the previous one is over: set_pool() and connect() never find     *)
(* killer_ connected.                                                      *)
THEOREM KillTransactionsAreSerial ==
  ASSUME \A c, d \in Controllers : c = d
  PROVE  Spec => []OneKillTransaction
<1>1. Init => OneKillTransaction
  BY DEF Init, OneKillTransaction
<1>2. IInv /\ OneKillTransaction /\ [Next]_vars => OneKillTransaction'
  <2> SUFFICES ASSUME IInv, OneKillTransaction, [Next]_vars, NEW d \in Controllers
               PROVE  cpc'[d] # "aborted"
    BY DEF OneKillTransaction
  <2>1. TypeOK /\ ControlInv /\ cpc[d] # "aborted"
    BY DEF IInv, OneKillTransaction
  <2>2. ASSUME NEW n \in KillSizes, KillThreads(d, n)
        PROVE  cpc'[d] # "aborted"
    <3>1. cpc[d] = "ready"
      BY <2>2, KillThreadsEffect
    <3>2. ~connected_[Killer]
      BY <2>1, <3>1 DEF ControlInv, KillerControl, InKill
    <3>3. cpc' = [cpc EXCEPT ![d] = "kgen"]
      BY <2>2, <3>2 DEF KillThreads
    <3> QED
      BY <2>1, <3>3 DEF TypeOK
  <2>3. ASSUME NEW w \in Workers, WorkerStep(w) \/ SpuriousRun(w)
        PROVE  cpc'[d] # "aborted"
    <3>1. \/ cpc' = cpc
          \/ \E c \in Controllers : cpc' = [cpc EXCEPT ![c] = "dwoken"]
          \/ \E c \in Controllers : cpc' = [cpc EXCEPT ![c] = "kwoken"]
      <4>1. CASE ReleaseEvent(w) \/ KillExit(w)
        BY <4>1, ReleaseEffect DEF ReleaseEvent, KillExit
      <4>2. CASE ThreadKill(w)
        BY <4>2, ThreadKillEffect
      <4>3. CASE ~(ReleaseEvent(w) \/ KillExit(w) \/ ThreadKill(w))
        BY <2>3, <4>3 DEF WorkerStep, WorkerWait, WorkerPop, pop_stage, RemoveEvent,
          dispatch, HandleDone, HandleForward, SpuriousRun, ctrlVars
      <4> QED
        BY <4>1, <4>2, <4>3
    <3> QED
      BY <2>1, <3>1 DEF TypeOK
  <2>4. CASE \/ UNCHANGED vars
             \/ \E t \in Threads : Schedule(t)
             \/ \E p \in Producers, s \in Stages, e \in Events : ProducerAdd(p, s, e)
             \/ \E n \in AddSizes : AddThreads(d, n)
             \/ \E s \in Stages : SetPool(d, s)
    <3>1. cpc' = cpc
      BY <2>4 DEF Schedule, ProducerAdd, AddThreads, SetPool, vars, ctrlVars
    <3> QED
      BY <2>1, <3>1
  <2>5. CASE ControllerStep(d) \/ SpuriousController(d)
             \/ \E s \in Stages : Connect(d, s) \/ Disconnect(d, s)
    <3>1. cpc' = cpc \/ \E x : x # "aborted" /\ cpc' = [cpc EXCEPT ![d] = x]
      BY <2>5, DisconnectEffect
      DEF ControllerStep, ConnectSchedule, schedule_backlog, ConnectReturn,
          DisconnectResume, GenKillEvent, KillWait, begin_kill_wait, KillResume,
          SpuriousController, Connect, Disconnect, begin_disconnect, Waits, Finishes
    <3> QED
      BY <2>1, <3>1 DEF TypeOK
  <2> QED
    BY <2>2, <2>3, <2>4, <2>5 DEF Next, ControllerCall
<1> QED
  BY <1>1, <1>2, InvariantHolds, PTL DEF Spec

-----------------------------------------------------------------------------

(* Wakeups: every entry of the run queue has a worker that will come for it. *)

LEMMA WorkersFinite ==
  ASSUME NEW W \in SUBSET Workers
  PROVE  IsFiniteSet(W) /\ Cardinality(W) \in Nat
<1>1. IsFiniteSet(Workers)
  BY ThreadAssumption
<1> QED
  BY <1>1, FS_Subset, FS_CardinalityType

LEMMA AwakeTypes ==
  ASSUME TypeOK
  PROVE  /\ IsFiniteSet(Awake) /\ Cardinality(Awake) \in Nat
         /\ IsFiniteSet(Awake') /\ Cardinality(Awake') \in Nat
         /\ Len(run_queue_) \in Nat
<1>1. Awake \in SUBSET Workers /\ Awake' \in SUBSET Workers
  BY DEF Awake
<1>2. Len(run_queue_) \in Nat
  BY DEF TypeOK
<1> QED
  BY <1>1, <1>2, WorkersFinite

\* A step that adds nothing to the run queue and sends nobody to sleep.
LEMMA WakeKept ==
  ASSUME TypeOK, NoLostWakeup, run_queue_' = run_queue_,
         Awake \subseteq Awake', Idle' \subseteq Idle
  PROVE  NoLostWakeup'
<1>1. Cardinality(Awake) <= Cardinality(Awake')
  BY AwakeTypes, FS_Subset
<1>2. /\ Cardinality(Awake) \in Nat /\ Cardinality(Awake') \in Nat
      /\ Len(run_queue_) \in Nat
  BY AwakeTypes
<1>3. ASSUME Idle' # {} PROVE Cardinality(Awake') >= Len(run_queue_')
  BY <1>1, <1>2, <1>3 DEF NoLostWakeup
<1> QED
  BY <1>3 DEF NoLostWakeup

\* schedule(): n_idles_ also counts workers that are already woken, and a
\* worker of the pool does not signal for the first entry of the run queue.
LEMMA WakeSchedule ==
  ASSUME TypeOK, ThreadCounts, NoLostWakeup,
         NEW t \in Threads, NEW s \in AllStages, schedule(t, s), serving' = serving,
         t \in Workers => t \in Awake
  PROVE  NoLostWakeup'
<1> SUFFICES ASSUME Idle' # {} PROVE Cardinality(Awake') >= Len(run_queue_')
  BY DEF NoLostWakeup
<1> DEFINE signal == (run_queue_ # <<>> \/ ~same_pool(t)) /\ n_idles_ > 0
<1>1. /\ run_queue_' = Append(run_queue_, s)
      /\ IF signal THEN signal_run ELSE UNCHANGED wpc
  BY DEF schedule, push_stage
<1>2. Len(run_queue_') = Len(run_queue_) + 1
  BY <1>1 DEF TypeOK
<1>3. Idle # {}
  BY ScheduleEffect DEF Idle, TypeOK
<1>4. Cardinality(Awake) >= Len(run_queue_)
  BY <1>3 DEF NoLostWakeup
<1>5. n_idles_ > 0
  <2>1. Idling # {}
    BY <1>3 DEF Idle, Idling
  <2>2. Cardinality(Idling) # 0 /\ Cardinality(Idling) \in Nat
    BY <2>1, LiveFinite, FS_EmptySet, FS_CardinalityType
  <2> QED
    BY <2>2 DEF ThreadCounts
<1>6. CASE signal
  <2>1. PICK x \in Idle : wpc' = [wpc EXCEPT ![x] = "woken"]
    BY <1>1, <1>3, <1>6 DEF signal_run
  <2>2. Awake' = Awake \cup {x} /\ x \notin Awake
    BY <2>1 DEF Awake, Idle, TypeOK
  <2>3. Cardinality(Awake') = Cardinality(Awake) + 1
    BY <2>2, AwakeTypes, FS_AddElement
  <2> QED
    BY <1>2, <1>4, <2>3, AwakeTypes
<1>7. CASE ~signal
  <2>1. run_queue_ = <<>> /\ t \in Awake
    BY <1>5, <1>7 DEF same_pool
  <2>2. Awake' = Awake
    BY <1>1, <1>7 DEF Awake
  <2>3. Cardinality(Awake) # 0 /\ Cardinality(Awake) \in Nat
    BY <2>1, AwakeTypes, FS_EmptySet
  <2>4. Len(run_queue_') = 1
    BY <1>2, <2>1
  <2> QED
    BY <2>2, <2>3, <2>4
<1> QED
  BY <1>6, <1>7

\* A worker moves and leaves the run queue as it is.
LEMMA WakeMove ==
  ASSUME TypeOK, NoLostWakeup, run_queue_' = run_queue_,
         NEW w \in Workers, NEW x, x # "wait", wpc' = [wpc EXCEPT ![w] = x],
         \A v \in Workers \ {w} : serving'[v] = serving[v],
         w \in Awake => w \in Awake'
  PROVE  NoLostWakeup'
<1>1. wpc'[w] = x /\ \A v \in Workers \ {w} : wpc'[v] = wpc[v]
  BY DEF TypeOK
<1>2. Idle' \subseteq Idle
  BY <1>1 DEF Idle
<1>3. Awake \subseteq Awake'
  BY <1>1 DEF Awake
<1> QED
  BY <1>2, <1>3, WakeKept

(* No step loses a wakeup. *)
LEMMA WakeStep ==
  ASSUME TypeOK, ControlInv, ThreadCounts, NoLostWakeup, [Next]_vars
  PROVE  NoLostWakeup'
<1>0. WorkerControl
  BY DEF ControlInv
<1>1. ASSUME NEW t \in Threads, Schedule(t)
      PROVE  NoLostWakeup'
  <2>1. adding[t] \in AllStages /\ schedule(t, adding[t]) /\ serving' = serving
    BY <1>1 DEF Schedule, TypeOK
  <2>2. t \in Workers => t \in Awake
    BY <1>0, <1>1, StageAssumption DEF Schedule, WorkerControl, Awake
  <2> QED
    BY <2>1, <2>2, WakeSchedule
<1>2. ASSUME NEW c \in Controllers, ConnectSchedule(c)
      PROVE  NoLostWakeup'
  <2>1. target[c] \in AllStages
    BY <1>2, StageAssumption
    DEF ConnectSchedule, schedule_backlog, ControlInv, ControllerControl, TypeOK
  <2>2. schedule(c, target[c]) /\ serving' = serving
    BY <1>2 DEF ConnectSchedule, schedule_backlog
  <2> QED
    BY <2>1, <2>2, WakeSchedule, ThreadKinds
<1>3. ASSUME NEW w \in Workers, WorkerWait(w)
      PROVE  NoLostWakeup'
  <2>1. run_queue_' = <<>>
    BY <1>3 DEF WorkerWait
  <2>2. Len(run_queue_') = 0
    BY <2>1
  <2>3. Cardinality(Awake') \in Nat
    BY AwakeTypes
  <2> QED
    BY <2>2, <2>3 DEF NoLostWakeup
<1>4. ASSUME NEW w \in Workers, WorkerPop(w)
      PROVE  NoLostWakeup'
  <2>1. /\ wpc[w] \in {"loop", "woken"} /\ run_queue_ # <<>>
        /\ wpc' = [wpc EXCEPT ![w] = "popped"]
        /\ serving' = [serving EXCEPT ![w] = Head(run_queue_)]
        /\ run_queue_' = Tail(run_queue_)
    BY <1>4 DEF WorkerPop, pop_stage
  <2>2. Len(run_queue_') = Len(run_queue_) - 1
    BY <2>1 DEF TypeOK
  <2>3. Awake \ {w} \subseteq Awake' /\ w \in Awake /\ Idle' \subseteq Idle
    BY <2>1 DEF Awake, Idle, TypeOK
  <2>4. Cardinality(Awake \ {w}) = Cardinality(Awake) - 1
    BY <2>3, AwakeTypes, FS_RemoveElement
  <2>5. IsFiniteSet(Awake')
    BY AwakeTypes
  <2>6. Cardinality(Awake \ {w}) <= Cardinality(Awake')
    BY <2>3, <2>5, FS_Subset
  <2>7. ASSUME Idle' # {} PROVE Cardinality(Awake') >= Len(run_queue_')
    <3>1. Cardinality(Awake) >= Len(run_queue_)
      BY <2>3, <2>7 DEF NoLostWakeup
    <3>2. /\ Cardinality(Awake) \in Nat /\ Cardinality(Awake') \in Nat
          /\ Len(run_queue_) \in Nat
      BY AwakeTypes
    <3> QED
      BY <2>2, <2>4, <2>6, <3>1, <3>2
  <2> QED
    BY <2>7 DEF NoLostWakeup
<1>5. ASSUME NEW w \in Workers, RemoveEvent(w)
      PROVE  NoLostWakeup'
  <2> DEFINE x == IF serving[w] = Killer THEN "kill" ELSE "handle"
  <2>1. /\ wpc[w] = "popped" /\ wpc' = [wpc EXCEPT ![w] = x]
        /\ UNCHANGED <<serving, run_queue_>>
    BY <1>5 DEF RemoveEvent, dispatch, runVars
  <2>2. w \in Awake => w \in Awake'
    BY <2>1 DEF Awake, TypeOK
  <2>3. x # "wait"
    OBVIOUS
  <2> HIDE DEF x
  <2> QED
    BY <2>1, <2>2, <2>3, WakeMove
<1>6. ASSUME NEW w \in Workers, HandleDone(w) \/ \E s \in Stages : HandleForward(w, s)
      PROVE  NoLostWakeup'
  <2>1. /\ wpc[w] = "handle" /\ wpc' = [wpc EXCEPT ![w] = "release"]
        /\ UNCHANGED <<serving, run_queue_>>
    BY <1>6 DEF HandleDone, HandleForward, runVars
  <2>2. w \in Awake => w \in Awake'
    BY <2>1 DEF Awake, TypeOK
  <2> QED
    BY <2>1, <2>2, WakeMove
<1>7. ASSUME NEW w \in Workers, ReleaseEvent(w)
      PROVE  NoLostWakeup'
  <2>1. /\ wpc' = [wpc EXCEPT ![w] = "loop"]
        /\ serving' = [serving EXCEPT ![w] = None]
        /\ run_queue_' = run_queue_
    BY <1>7 DEF ReleaseEvent, runVars
  <2>2. w \in Awake' /\ \A v \in Workers \ {w} : serving'[v] = serving[v]
    BY <2>1 DEF Awake, TypeOK
  <2> QED
    BY <2>1, <2>2, WakeMove
<1>8. ASSUME NEW w \in Workers, ThreadKill(w)
      PROVE  NoLostWakeup'
  <2>1. /\ wpc[w] = "kill" /\ wpc' = [wpc EXCEPT ![w] = "killed"]
        /\ UNCHANGED <<serving, run_queue_>>
    BY <1>8 DEF ThreadKill, count_kill, runVars
  <2>2. w \notin Awake
    BY <2>1 DEF Awake
  <2> QED
    BY <2>1, <2>2, WakeMove
<1>9. ASSUME NEW w \in Workers, KillExit(w)
      PROVE  NoLostWakeup'
  <2>1. /\ wpc[w] = "killed" /\ wpc' = [wpc EXCEPT ![w] = "none"]
        /\ serving' = [serving EXCEPT ![w] = None]
        /\ run_queue_' = run_queue_
    BY <1>9 DEF KillExit, runVars
  <2>2. w \notin Awake /\ \A v \in Workers \ {w} : serving'[v] = serving[v]
    BY <2>1 DEF Awake, TypeOK
  <2> QED
    BY <2>1, <2>2, WakeMove
<1>10. ASSUME NEW w \in Workers, SpuriousRun(w)
       PROVE  NoLostWakeup'
  <2>1. /\ wpc' = [wpc EXCEPT ![w] = "woken"]
        /\ UNCHANGED <<serving, run_queue_>>
    BY <1>10 DEF SpuriousRun, runVars
  <2>2. w \in Awake'
    BY <2>1 DEF Awake, TypeOK
  <2> QED
    BY <2>1, <2>2, WakeMove
<1>11. ASSUME NEW c \in Controllers, NEW n \in AddSizes, AddThreads(c, n)
       PROVE  NoLostWakeup'
  <2>1. /\ \E W \in SUBSET {w \in Workers : wpc[w] = "none"} :
             wpc' = [w \in Workers |-> IF w \in W THEN "loop" ELSE wpc[w]]
        /\ UNCHANGED <<serving, run_queue_>>
    BY <1>11 DEF AddThreads, runVars
  <2>2. Awake \subseteq Awake' /\ Idle' \subseteq Idle
    BY <2>1 DEF Awake, Idle
  <2> QED
    BY <2>1, <2>2, WakeKept
<1>12. ASSUME UNCHANGED <<run_queue_, wpc, serving>>
       PROVE  NoLostWakeup'
  <2>1. Awake' = Awake /\ Idle' = Idle
    BY <1>12 DEF Awake, Idle
  <2> QED
    BY <1>12, <2>1, WakeKept
<1>13. ASSUME \E p \in Producers, s \in Stages, e \in Events : ProducerAdd(p, s, e)
       PROVE  NoLostWakeup'
  BY <1>12, <1>13 DEF ProducerAdd, runVars, workVars
<1>14. ASSUME NEW c \in Controllers,
              ConnectReturn(c) \/ DisconnectResume(c) \/ GenKillEvent(c) \/
              KillWait(c) \/ KillResume(c) \/ SpuriousController(c)
       PROVE  NoLostWakeup'
  BY <1>12, <1>14
  DEF ConnectReturn, DisconnectResume, GenKillEvent, KillWait, begin_kill_wait,
      KillResume, SpuriousController, runVars, workVars
<1>15. ASSUME NEW c \in Controllers, NEW s \in Stages,
              SetPool(c, s) \/ Connect(c, s) \/ Disconnect(c, s)
       PROVE  NoLostWakeup'
  BY <1>12, <1>15 DEF SetPool, Connect, Disconnect, runVars, workVars
<1>16. ASSUME NEW c \in Controllers, NEW n \in KillSizes, KillThreads(c, n)
       PROVE  NoLostWakeup'
  BY <1>12, <1>16, KillThreadsEffect
<1>17. ASSUME UNCHANGED vars PROVE NoLostWakeup'
  BY <1>12, <1>17 DEF vars, runVars, workVars
<1> QED
  BY <1>1, <1>2, <1>3, <1>4, <1>5, <1>6, <1>7, <1>8, <1>9, <1>10, <1>11, <1>13, <1>14,
     <1>15, <1>16, <1>17
  DEF Next, WorkerStep, ControllerStep, ControllerCall

(* schedule() never leaves an entry on the run queue to sleeping workers:  *)
(* neither the idle count that includes workers already signalled, nor the *)
(* same-pool shortcut, nor the death of a worker loses a wakeup.           *)
THEOREM WakeupsAreNotLost == Spec => []NoLostWakeup
<1>1. Init => NoLostWakeup
  BY DEF Init, NoLostWakeup, Idle
<1>2. IInv /\ NoLostWakeup /\ [Next]_vars => NoLostWakeup'
  BY WakeStep DEF IInv
<1> QED
  BY <1>1, <1>2, InvariantHolds, PTL DEF Spec

-----------------------------------------------------------------------------

(* Ownership of events.                                                    *)

\* add_event() gives the event the position behind the last one.
LEMMA OnAppend ==
  ASSUME TypeOK, NEW s \in AllStages, NEW x \in Events \cup {KillEvent},
         event_list_' = [event_list_ EXCEPT ![s] = Append(@, x)],
         NEW e, NEW r \in AllStages, NEW i \in Nat
  PROVE  On(e, r, i)' <=> On(e, r, i) \/ (r = s /\ e = x /\ i = Len(event_list_[s]) + 1)
<1>1. event_list_'[r] = IF r = s THEN Append(event_list_[s], x) ELSE event_list_[r]
  BY DEF TypeOK
<1>2. CASE r = s
  <2> DEFINE q == event_list_[s]
  <2>1. q \in Seq(Events \cup {KillEvent})
    BY DEF TypeOK
  <2>2. Len(q) \in Nat /\ DOMAIN q = 1 .. Len(q)
    BY <2>1
  <2>3. DOMAIN Append(q, x) = 1 .. Len(q) + 1
    BY <2>1
  <2>4. \A k \in 1 .. Len(q) : Append(q, x)[k] = q[k]
    BY <2>1
  <2>5. Append(q, x)[Len(q) + 1] = x
    BY <2>1
  <2> HIDE DEF q
  <2>6. \A k \in Nat : /\ k \in 1 .. Len(q) + 1 <=> k \in 1 .. Len(q) \/ k = Len(q) + 1
                       /\ k \in 1 .. Len(q) => k # Len(q) + 1
    BY <2>2
  <2>7. (i \in DOMAIN Append(q, x) /\ Append(q, x)[i] = e)
          <=> (i \in DOMAIN q /\ q[i] = e) \/ (e = x /\ i = Len(q) + 1)
    BY <2>2, <2>3, <2>4, <2>5, <2>6
  <2> QED
    BY <1>1, <1>2, <2>7 DEF On, q
<1>3. CASE r # s
  BY <1>1, <1>3 DEF On
<1> QED
  BY <1>2, <1>3

\* remove_event() moves the others up by one.
LEMMA OnTail ==
  ASSUME TypeOK, NEW s \in AllStages, event_list_[s] # <<>>,
         event_list_' = [event_list_ EXCEPT ![s] = Tail(event_list_[s])],
         NEW e, NEW r \in AllStages, NEW i \in Nat
  PROVE  /\ r # s => (On(e, r, i)' <=> On(e, r, i))
         /\ r = s => (On(e, r, i)' <=> i # 0 /\ On(e, s, i + 1))
<1>1. event_list_'[r] = IF r = s THEN Tail(event_list_[s]) ELSE event_list_[r]
  BY DEF TypeOK
<1>2. CASE r = s
  <2> DEFINE q == event_list_[s]
  <2>1. q \in Seq(Events \cup {KillEvent}) /\ q # <<>>
    BY DEF TypeOK
  <2>2. Len(q) \in Nat /\ Len(q) > 0 /\ DOMAIN q = 1 .. Len(q)
    BY <2>1
  <2>3. DOMAIN Tail(q) = 1 .. Len(q) - 1
    BY <2>1
  <2>4. \A k \in 1 .. Len(q) - 1 : Tail(q)[k] = q[k + 1]
    BY <2>1
  <2> HIDE DEF q
  <2>5. i \in 1 .. Len(q) - 1 <=> i # 0 /\ i + 1 \in 1 .. Len(q)
    BY <2>2
  <2>6. (i \in DOMAIN Tail(q) /\ Tail(q)[i] = e)
          <=> i # 0 /\ (i + 1 \in DOMAIN q /\ q[i + 1] = e)
    BY <2>2, <2>3, <2>4, <2>5
  <2> QED
    BY <1>1, <1>2, <2>6 DEF On, q
<1>3. CASE r # s
  BY <1>1, <1>3 DEF On
<1> QED
  BY <1>2, <1>3

LEMMA OnHead ==
  ASSUME TypeOK, NEW s \in AllStages, event_list_[s] # <<>>
  PROVE  On(Head(event_list_[s]), s, 1)
<1>1. event_list_[s] \in Seq(Events \cup {KillEvent})
  BY DEF TypeOK
<1>2. 1 \in DOMAIN event_list_[s] /\ Head(event_list_[s]) = event_list_[s][1]
  BY <1>1
<1> QED
  BY <1>2 DEF On

\* A step after which no worker has an event it did not have before.
LetsGo == \A w \in Workers : ev'[w] \in Events => ev'[w] = ev[w]

LEMMA OwnerKept ==
  ASSUME OwnerControl, event_list_' = event_list_, LetsGo
  PROVE  OwnerControl'
<1>1. \A e, s, i : On(e, s, i)' <=> On(e, s, i)
  BY DEF On
<1> QED
  BY <1>1 DEF OwnerControl, LetsGo

\* Adding an event nobody has, or has after this step, and adding a kill event.
LEMMA OwnerAdd ==
  ASSUME TypeOK, OwnerControl, NEW s \in AllStages, NEW x \in Events \cup {KillEvent},
         event_list_' = [event_list_ EXCEPT ![s] = Append(@, x)], LetsGo,
         x \in Events => /\ \A r \in AllStages, i \in Nat : ~On(x, r, i)
                         /\ \A w \in Workers : ev'[w] # x
  PROVE  OwnerControl'
<1> SUFFICES ASSUME NEW e \in Events
             PROVE  /\ \A r, t \in AllStages, i, j \in Nat :
                         On(e, r, i)' /\ On(e, t, j)' => r = t /\ i = j
                    /\ \A v, w \in Workers : ev'[v] = e /\ ev'[w] = e => v = w
                    /\ \A r \in AllStages, i \in Nat, w \in Workers :
                         ~(On(e, r, i)' /\ ev'[w] = e)
  BY DEF OwnerControl
<1>1. \A r \in AllStages, i \in Nat :
        On(e, r, i)' <=> On(e, r, i) \/ (r = s /\ e = x /\ i = Len(event_list_[s]) + 1)
  BY OnAppend
<1> DEFINE n == Len(event_list_[s]) + 1
<1> HIDE DEF n
<1>2. \A r \in AllStages, i \in Nat :
        On(e, r, i)' <=> On(e, r, i) \/ (r = s /\ e = x /\ i = n)
  BY <1>1 DEF n
<1>3. \A w \in Workers : ev'[w] = e => ev[w] = e
  BY DEF LetsGo
<1>4. CASE e = x
  <2>1. /\ \A r \in AllStages, i \in Nat : ~On(e, r, i)
        /\ \A w \in Workers : ev'[w] # e
    BY <1>4
  <2> QED
    BY <1>2, <2>1
<1>5. CASE e # x
  <2>1. \A r \in AllStages, i \in Nat : On(e, r, i)' <=> On(e, r, i)
    BY <1>2, <1>5
  <2> QED
    BY <1>3, <2>1 DEF OwnerControl
<1> QED
  BY <1>4, <1>5

\* remove_event(): the event passes from the head of the queue to the worker.
LEMMA OwnerTake ==
  ASSUME TypeOK, OwnerControl, NEW w \in Workers, NEW s \in AllStages,
         event_list_[s] # <<>>,
         event_list_' = [event_list_ EXCEPT ![s] = Tail(event_list_[s])],
         ev' = [ev EXCEPT ![w] = Head(event_list_[s])]
  PROVE  OwnerControl'
<1> DEFINE x == Head(event_list_[s])
<1> SUFFICES ASSUME NEW e \in Events
             PROVE  /\ \A r, t \in AllStages, i, j \in Nat :
                         On(e, r, i)' /\ On(e, t, j)' => r = t /\ i = j
                    /\ \A v, u \in Workers : ev'[v] = e /\ ev'[u] = e => v = u
                    /\ \A r \in AllStages, i \in Nat, v \in Workers :
                         ~(On(e, r, i)' /\ ev'[v] = e)
  BY DEF OwnerControl
<1>1. On(x, s, 1)
  BY OnHead
<1>2. ev'[w] = x /\ \A v \in Workers \ {w} : ev'[v] = ev[v]
  BY DEF TypeOK
<1>3. \A r \in AllStages, i \in Nat :
        /\ r # s => (On(e, r, i)' <=> On(e, r, i))
        /\ r = s => (On(e, r, i)' <=> i # 0 /\ On(e, s, i + 1))
  BY OnTail
<1> HIDE DEF x
<1>4. /\ \A r, t \in AllStages, i, j \in Nat : On(e, r, i) /\ On(e, t, j) => r = t /\ i = j
      /\ \A v, u \in Workers : ev[v] = e /\ ev[u] = e => v = u
      /\ \A r \in AllStages, i \in Nat, v \in Workers : ~(On(e, r, i) /\ ev[v] = e)
  BY DEF OwnerControl
<1>5. ASSUME NEW r \in AllStages, NEW t \in AllStages, NEW i \in Nat, NEW j \in Nat,
             On(e, r, i)', On(e, t, j)'
      PROVE  r = t /\ i = j
  <2>1. i + 1 \in Nat /\ j + 1 \in Nat /\ (i + 1 = j + 1 => i = j)
    OBVIOUS
  <2>2. IF r = s THEN On(e, s, i + 1) ELSE On(e, r, i)
    BY <1>3, <1>5
  <2>3. IF t = s THEN On(e, s, j + 1) ELSE On(e, t, j)
    BY <1>3, <1>5
  <2> QED
    BY <1>4, <2>1, <2>2, <2>3
<1>6. CASE e = x
  <2>1. \A r \in AllStages, i \in Nat : ~On(e, r, i)'
    <3> SUFFICES ASSUME NEW r \in AllStages, NEW i \in Nat, On(e, r, i)' PROVE FALSE
      OBVIOUS
    <3>1. IF r = s THEN i # 0 /\ On(e, s, i + 1) ELSE On(e, r, i)
      BY <1>3
    <3>2. i + 1 \in Nat /\ (i # 0 => i + 1 # 1)
      OBVIOUS
    <3> QED
      BY <1>1, <1>4, <1>6, <3>1, <3>2
  <2>2. \A v \in Workers : ev[v] # e
    BY <1>1, <1>4, <1>6
  <2> QED
    BY <1>2, <2>1, <2>2
<1>7. CASE e # x
  <2>1. \A v \in Workers : ev'[v] = e => ev[v] = e
    BY <1>2, <1>7
  <2>2. \A r \in AllStages, i \in Nat, v \in Workers : ~(On(e, r, i)' /\ ev'[v] = e)
    <3> SUFFICES ASSUME NEW r \in AllStages, NEW i \in Nat, NEW v \in Workers,
                        On(e, r, i)', ev'[v] = e
                 PROVE  FALSE
      OBVIOUS
    <3>1. IF r = s THEN On(e, s, i + 1) ELSE On(e, r, i)
      BY <1>3
    <3>2. i + 1 \in Nat
      OBVIOUS
    <3> QED
      BY <1>4, <2>1, <3>1, <3>2
  <2> QED
    BY <1>4, <1>5, <2>1, <2>2
<1> QED
  BY <1>6, <1>7

(* No step gives an event a second owner. *)
LEMMA OwnerStep ==
  ASSUME TypeOK, ControlInv, OwnerControl, [Next]_vars
  PROVE  OwnerControl'
<1>0. Killer \in AllStages /\ Stages \subseteq AllStages
  BY DEF AllStages
<1>1. ASSUME NEW p \in Producers, NEW s \in Stages, NEW e \in Events,
             ProducerAdd(p, s, e)
      PROVE  OwnerControl'
  <2>1. /\ ~InUse(e) /\ ev' = ev
        /\ event_list_' = [event_list_ EXCEPT ![s] = Append(@, e)]
    BY <1>1 DEF ProducerAdd, add_event, workVars
  <2>2. /\ \A r \in AllStages, i \in Nat : ~On(e, r, i)
        /\ \A w \in Workers : ev'[w] # e
    BY <2>1 DEF InUse, On
  <2>3. LetsGo
    BY <2>1 DEF LetsGo
  <2> QED
    BY <1>0, <2>1, <2>2, <2>3, OwnerAdd
<1>2. ASSUME NEW w \in Workers, RemoveEvent(w)
      PROVE  OwnerControl'
  <2>1. /\ wpc[w] = "popped" /\ event_list_[serving[w]] # <<>>
        /\ ev' = [ev EXCEPT ![w] = Head(event_list_[serving[w]])]
        /\ event_list_' = [event_list_ EXCEPT ![serving[w]] = Tail(event_list_[serving[w]])]
    BY <1>2 DEF RemoveEvent, dispatch, queue_of
  <2>2. serving[w] \in AllStages
    BY <2>1 DEF ControlInv, WorkerControl, TypeOK
  <2> QED
    BY <2>1, <2>2, OwnerTake
<1>3. ASSUME NEW w \in Workers, NEW s \in Stages, HandleForward(w, s)
      PROVE  OwnerControl'
  <2>1. /\ wpc[w] = "handle" /\ ev' = [ev EXCEPT ![w] = None]
        /\ event_list_' = [event_list_ EXCEPT ![s] = Append(@, ev[w])]
    BY <1>3 DEF HandleForward, add_event
  <2>2. ev[w] \in Events
    BY <2>1 DEF ControlInv, WorkerControl
  <2>3. ev'[w] = None /\ \A v \in Workers \ {w} : ev'[v] = ev[v]
    BY <2>1 DEF TypeOK
  <2>4. None \notin Events
    BY StageAssumption
  <2>5. /\ \A r \in AllStages, i \in Nat : ~On(ev[w], r, i)
        /\ \A v \in Workers : ev'[v] # ev[w]
    BY <2>2, <2>3, <2>4 DEF OwnerControl
  <2>6. LetsGo
    BY <2>3, <2>4 DEF LetsGo
  <2> QED
    BY <1>0, <2>1, <2>2, <2>5, <2>6, OwnerAdd
<1>4. ASSUME NEW w \in Workers, HandleDone(w) \/ KillExit(w)
      PROVE  OwnerControl'
  <2>1. ev' = [ev EXCEPT ![w] = None] /\ event_list_' = event_list_
    BY <1>4 DEF HandleDone, KillExit, stageVars
  <2>2. LetsGo
    BY <2>1, StageAssumption DEF LetsGo, TypeOK
  <2> QED
    BY <2>1, <2>2, OwnerKept
<1>5. ASSUME NEW c \in Controllers, GenKillEvent(c)
      PROVE  OwnerControl'
  <2>1. event_list_' = [event_list_ EXCEPT ![Killer] = Append(@, KillEvent)] /\ ev' = ev
    BY <1>5 DEF GenKillEvent, add_event, workVars
  <2>2. LetsGo /\ KillEvent \notin Events
    BY <2>1, StageAssumption DEF LetsGo
  <2> QED
    BY <1>0, <2>1, <2>2, OwnerAdd
<1>6. ASSUME UNCHANGED <<event_list_, ev>>
      PROVE  OwnerControl'
  BY <1>6, OwnerKept DEF LetsGo
<1>7. ASSUME NEW t \in Threads, Schedule(t)
      PROVE  OwnerControl'
  BY <1>6, <1>7 DEF Schedule, stageVars
<1>8. ASSUME NEW w \in Workers,
             WorkerWait(w) \/ WorkerPop(w) \/ ReleaseEvent(w) \/ ThreadKill(w) \/ SpuriousRun(w)
      PROVE  OwnerControl'
  BY <1>6, <1>8 DEF WorkerWait, WorkerPop, pop_stage, ReleaseEvent, ThreadKill, count_kill,
    SpuriousRun, stageVars
<1>9. ASSUME NEW c \in Controllers,
             ConnectSchedule(c) \/ ConnectReturn(c) \/ DisconnectResume(c) \/
             KillWait(c) \/ KillResume(c) \/ SpuriousController(c)
      PROVE  OwnerControl'
  BY <1>6, <1>9
  DEF ConnectSchedule, schedule_backlog, ConnectReturn, DisconnectResume, KillWait,
      begin_kill_wait, KillResume, SpuriousController, stageVars, workVars
<1>10. ASSUME NEW c \in Controllers, NEW s \in Stages,
              SetPool(c, s) \/ Connect(c, s) \/ Disconnect(c, s)
       PROVE  OwnerControl'
  BY <1>6, <1>10 DEF SetPool, Connect, Disconnect, workVars
<1>11. ASSUME NEW c \in Controllers, NEW n \in AddSizes, AddThreads(c, n)
       PROVE  OwnerControl'
  BY <1>6, <1>11 DEF AddThreads, stageVars
<1>12. ASSUME NEW c \in Controllers, NEW n \in KillSizes, KillThreads(c, n)
       PROVE  OwnerControl'
  BY <1>6, <1>12, KillThreadsEffect
<1>13. ASSUME UNCHANGED vars PROVE OwnerControl'
  BY <1>6, <1>13 DEF vars, stageVars, workVars
<1> QED
  BY <1>1, <1>2, <1>3, <1>4, <1>5, <1>7, <1>8, <1>9, <1>10, <1>11, <1>12, <1>13
  DEF Next, WorkerStep, ControllerStep, ControllerCall

LEMMA AtMostOne ==
  ASSUME NEW S, \A x, y \in S : x = y
  PROVE  Cardinality(S) <= 1
<1>1. CASE S = {}
  BY <1>1, FS_EmptySet
<1>2. CASE S # {}
  <2>1. PICK x : x \in S
    BY <1>2
  <2>2. S = {x}
    BY <2>1
  <2> QED
    BY <2>2, FS_Singleton
<1> QED
  BY <1>1, <1>2

(* A pair of owners is a pair of positions, of handlers, or one of each.   *)
LEMMA OwnersAreOne == TypeOK /\ OwnerControl => EventOwnedOnce
<1> SUFFICES ASSUME TypeOK, OwnerControl, NEW e \in Events
             PROVE  Cardinality((UNION {Places(e, s) : s \in AllStages}) \cup Handlers(e)) <= 1
  BY DEF EventOwnedOnce
<1> DEFINE queued == UNION {Places(e, s) : s \in AllStages}
           S == queued \cup Handlers(e)
<1>1. \A s \in AllStages : \A i \in DOMAIN event_list_[s] : i \in Nat
  <2> SUFFICES ASSUME NEW s \in AllStages PROVE \A i \in DOMAIN event_list_[s] : i \in Nat
    OBVIOUS
  <2>1. event_list_[s] \in Seq(Events \cup {KillEvent})
    BY DEF TypeOK
  <2>2. DOMAIN event_list_[s] = 1 .. Len(event_list_[s]) /\ Len(event_list_[s]) \in Nat
    BY <2>1
  <2> QED
    BY <2>2
<1>2. ASSUME NEW x \in S
      PROVE  \/ \E s \in AllStages, i \in Nat : x = <<s, i>> /\ On(e, s, i)
             \/ \E w \in Workers : x = <<w, 0>> /\ ev[w] = e
  <2>1. CASE x \in queued
    <3>1. PICK s \in AllStages : x \in Places(e, s)
      BY <2>1
    <3>2. PICK i \in DOMAIN event_list_[s] : x = <<s, i>> /\ event_list_[s][i] = e
      BY <3>1 DEF Places
    <3> QED
      BY <1>1, <3>2 DEF On
  <2>2. CASE x \in Handlers(e)
    BY <2>2 DEF Handlers
  <2>3. x \in queued \/ x \in Handlers(e)
    <3> HIDE DEF queued
    <3> QED
      OBVIOUS
  <2> QED
    BY <2>1, <2>2, <2>3
<1>3. ASSUME NEW x \in S, NEW y \in S PROVE x = y
  <2>1. \/ \E s \in AllStages, i \in Nat : x = <<s, i>> /\ On(e, s, i)
        \/ \E w \in Workers : x = <<w, 0>> /\ ev[w] = e
    BY <1>2
  <2>2. \/ \E s \in AllStages, i \in Nat : y = <<s, i>> /\ On(e, s, i)
        \/ \E w \in Workers : y = <<w, 0>> /\ ev[w] = e
    BY <1>2
  <2>3. ASSUME NEW s \in AllStages, NEW i \in Nat, x = <<s, i>>, On(e, s, i)
        PROVE  x = y
    BY <2>2, <2>3 DEF OwnerControl
  <2>4. ASSUME NEW w \in Workers, x = <<w, 0>>, ev[w] = e
        PROVE  x = y
    BY <2>2, <2>4 DEF OwnerControl
  <2> QED
    BY <2>1, <2>3, <2>4
<1> HIDE DEF S
<1>4. Cardinality(S) <= 1
  BY <1>3, AtMostOne
<1> QED
  BY <1>4 DEF S

(* The ownership of events is invariant. *)
THEOREM OwnersInvariant == Spec => []OwnerControl
<1>1. Init => OwnerControl
  <2> SUFFICES ASSUME Init PROVE OwnerControl
    OBVIOUS
  <2>1. \A s \in AllStages : event_list_[s] = <<>>
    BY DEF Init
  <2>2. \A e, i : \A s \in AllStages : ~On(e, s, i)
    <3>1. DOMAIN <<>> = {}
      OBVIOUS
    <3> QED
      BY <2>1, <3>1 DEF On
  <2>3. \A e \in Events, w \in Workers : ev[w] # e
    BY StageAssumption DEF Init
  <2> QED
    BY <2>2, <2>3 DEF OwnerControl
<1>2. IInv /\ OwnerControl /\ [Next]_vars => OwnerControl'
  BY OwnerStep DEF IInv
<1> QED
  BY <1>1, <1>2, InvariantHolds, PTL DEF Spec

(* An event is on one queue once or in the hands of one worker, however    *)
(* producers, handlers and workers interleave: it is never handled twice.  *)
THEOREM EventsHaveOneOwner == Spec => []EventOwnedOnce
<1>1. IInv /\ OwnerControl => EventOwnedOnce
  BY OwnersAreOne DEF IInv
<1> QED
  BY <1>1, OwnersInvariant, InvariantHolds, PTL

-----------------------------------------------------------------------------
(* Refinement: SedaPool implements StageQueue.                             *)

\* How an event at either end of a queue moves the split into what the stage
\* is committed to and what it keeps.
LEMMA AppendSplit ==
  ASSUME NEW X, NEW q \in Seq(X), NEW x \in X, NEW t \in 0 .. Len(q)
  PROVE  /\ SubSeq(Append(q, x), 1, t) = SubSeq(q, 1, t)
         /\ SubSeq(Append(q, x), t + 1, Len(q) + 1) = Append(SubSeq(q, t + 1, Len(q)), x)
<1> DEFINE l == SubSeq(Append(q, x), t + 1, Len(q) + 1)
           k == SubSeq(q, t + 1, Len(q))
<1>1. SubSeq(Append(q, x), 1, t) = SubSeq(q, 1, t)
  OBVIOUS
<1>2. k \in Seq(X) /\ Len(k) = Len(q) - t /\ \A i \in 1 .. Len(q) - t : k[i] = q[t + i]
  OBVIOUS
<1>3. /\ l \in Seq(X) /\ Len(l) = Len(q) - t + 1
      /\ \A i \in 1 .. Len(q) - t + 1 : l[i] = Append(q, x)[t + i]
  OBVIOUS
<1>4. /\ \A i \in 1 .. Len(q) - t : l[i] = q[t + i]
      /\ l[Len(q) - t + 1] = x
  BY <1>3
<1> HIDE DEF l, k
<1>5. /\ Append(k, x) \in Seq(X) /\ Len(Append(k, x)) = Len(k) + 1
      /\ \A i \in 1 .. Len(k) : Append(k, x)[i] = k[i]
      /\ Append(k, x)[Len(k) + 1] = x
  BY <1>2, AppendProperties
<1>6. ASSUME NEW i \in 1 .. Len(l) PROVE l[i] = Append(k, x)[i]
  <2>1. CASE i = Len(k) + 1
    BY <1>2, <1>4, <1>5, <2>1
  <2>2. CASE i # Len(k) + 1
    <3>1. i \in 1 .. Len(k) /\ Len(k) = Len(q) - t
      BY <1>2, <1>3, <2>2
    <3> QED
      BY <1>2, <1>4, <1>5, <3>1
  <2> QED
    BY <2>1, <2>2
<1>7. Len(l) = Len(Append(k, x))
  BY <1>2, <1>3, <1>5
<1> DEFINE m == Append(k, x)
<1>8. m \in Seq(X) /\ Len(l) = Len(m) /\ \A i \in 1 .. Len(l) : l[i] = m[i]
  BY <1>5, <1>6, <1>7
<1>9. l \in Seq(X)
  BY <1>3
<1> HIDE DEF m
<1>10. l = m
  BY <1>8, <1>9, SeqEqual
<1> QED
  BY <1>1, <1>10 DEF l, k, m

LEMMA TailSplit ==
  ASSUME NEW X, NEW q \in Seq(X), NEW t \in 1 .. Len(q)
  PROVE  /\ SubSeq(q, 1, t) # <<>>
         /\ Head(SubSeq(q, 1, t)) = Head(q)
         /\ SubSeq(Tail(q), 1, t - 1) = Tail(SubSeq(q, 1, t))
         /\ SubSeq(Tail(q), t, Len(q) - 1) = SubSeq(q, t + 1, Len(q))
<1>1. SubSeq(q, 1, t) # <<>> /\ Head(SubSeq(q, 1, t)) = Head(q)
  OBVIOUS
<1>2. SubSeq(Tail(q), 1, t - 1) = Tail(SubSeq(q, 1, t))
  OBVIOUS
<1>3. SubSeq(Tail(q), t, Len(q) - 1) = SubSeq(q, t + 1, Len(q))
  OBVIOUS
<1> QED
  BY <1>1, <1>2, <1>3

LEMMA WholeSplit ==
  ASSUME NEW X, NEW q \in Seq(X)
  PROVE  /\ SubSeq(q, 1, 0) = <<>>
         /\ SubSeq(q, 1, Len(q)) = q
         /\ SubSeq(q, 0 + 1, Len(q)) = q
         /\ SubSeq(q, Len(q) + 1, Len(q)) = <<>>
<1>1. Len(q) \in Nat
  OBVIOUS
<1>2. SubSeq(q, 1, 0) = <<>> /\ SubSeq(q, Len(q) + 1, Len(q)) = <<>>
  BY <1>1, SubSeqEmpty
<1>3. SubSeq(q, 1, Len(q)) = q /\ 0 + 1 = 1
  BY SubSeqFull
<1> QED
  BY <1>2, <1>3

\* Workers that have taken their event off the queue of stage s.
Handling(s) == {w \in Workers : serving[w] = s /\ wpc[w] # "popped"}

\* By RefCount, the promises of a stage are its references less the
\* services under way.
Promises ==
  \A s \in AllStages :
    /\ Tickets(s) \in Nat /\ Tickets(s) <= Len(event_list_[s])
    /\ connected_[s] => Tickets(s) = Len(event_list_[s])
    /\ Cardinality(Handling(s)) \in Nat /\ IsFiniteSet(Handling(s))
    /\ event_ref_[s] = Tickets(s) + Cardinality(Handling(s))

LEMMA TicketsAre == IInv => Promises
<1> SUFFICES ASSUME IInv, NEW s \in AllStages
             PROVE  /\ Tickets(s) \in Nat /\ Tickets(s) <= Len(event_list_[s])
                    /\ connected_[s] => Tickets(s) = Len(event_list_[s])
                    /\ Cardinality(Handling(s)) \in Nat /\ IsFiniteSet(Handling(s))
                    /\ event_ref_[s] = Tickets(s) + Cardinality(Handling(s))
  BY DEF Promises
<1>1. TypeOK /\ RefCount /\ QueueCoversTickets
  BY DEF IInv
<1> DEFINE occ == Cardinality(Occurrences(s))
           add == Cardinality(Adders(s))
           ser == Cardinality(Servers(s))
           pop == Cardinality(Poppers(s))
           han == Cardinality(Handling(s))
<1>2. /\ occ \in Nat /\ add \in Nat /\ ser \in Nat /\ pop \in Nat /\ Owed(s) \in Nat
      /\ IsFiniteSet(Poppers(s))
  BY <1>1, CountTypes
<1>3. IsFiniteSet(Handling(s)) /\ han \in Nat
  BY WorkersFinite DEF Handling
<1>4. ser = pop + han
  <2>1. Servers(s) = Poppers(s) \cup Handling(s) /\ Poppers(s) \cap Handling(s) = {}
    BY DEF Servers, Poppers, Handling
  <2>2. Cardinality(Poppers(s) \cup Handling(s))
          = pop + han - Cardinality(Poppers(s) \cap Handling(s))
    BY <1>2, <1>3, FS_Union
  <2>3. Cardinality(Poppers(s) \cap Handling(s)) = 0
    BY <2>1, FS_EmptySet
  <2> QED
    BY <1>2, <1>3, <2>1, <2>2, <2>3
<1>5. Tickets(s) = occ + add + pop + Owed(s)
  BY DEF Tickets
<1>6. event_ref_[s] = occ + add + ser + Owed(s)
  BY <1>1 DEF RefCount
<1>7. /\ Len(event_list_[s]) >= Tickets(s) /\ Len(event_list_[s]) \in Nat
      /\ connected_[s] => Len(event_list_[s]) = Tickets(s)
  BY <1>1, LenType DEF QueueCoversTickets
<1> HIDE DEF occ, add, ser, pop, han
<1>8. event_ref_[s] = Tickets(s) + han /\ Tickets(s) \in Nat
  BY <1>2, <1>3, <1>4, <1>5, <1>6
<1> QED
  BY <1>3, <1>7, <1>8 DEF han

LEMMA TicketsAreNext == IInv' => Promises'
  BY TicketsAre, PTL

LEMMA QueueType ==
  ASSUME IInv, NEW s \in Stages
  PROVE  event_list_[s] \in Seq(Events) /\ s \in AllStages /\ s # Killer /\ s # None
  BY StageAssumption DEF IInv, ControlInv, QueueControl, AllStages

\* What a StageQueue step leaves alone.
SameQueue(r) == Committed(r)' = Committed(r) /\ Kept(r)' = Kept(r)

LEMMA QueueKept ==
  ASSUME IInv, IInv', NEW r \in AllStages,
         event_list_'[r] = event_list_[r], event_ref_'[r] = event_ref_[r],
         Handling(r)' = Handling(r)
  PROVE  SameQueue(r)
<1>1. /\ Tickets(r) \in Nat /\ Cardinality(Handling(r)) \in Nat
      /\ event_ref_[r] = Tickets(r) + Cardinality(Handling(r))
  BY TicketsAre DEF Promises
<1>2. /\ Tickets(r)' \in Nat
      /\ event_ref_'[r] = Tickets(r)' + Cardinality(Handling(r)')
  BY TicketsAreNext DEF Promises
<1>3. Tickets(r)' = Tickets(r)
  BY <1>1, <1>2
<1> QED
  BY <1>3 DEF SameQueue, Committed, Kept

\* A worker that neither begins nor ends a service of stage r.
SameWork(w, r) ==
  /\ (serving'[w] = r /\ wpc'[w] # "popped") <=> (serving[w] = r /\ wpc[w] # "popped")
  /\ (serving'[w] = r /\ wpc'[w] = "handle") <=> (serving[w] = r /\ wpc[w] = "handle")
  /\ serving[w] = r /\ wpc[w] = "handle" => ev'[w] = ev[w]

LEMMA WorkKept ==
  ASSUME NEW r, \A w \in Workers : SameWork(w, r)
  PROVE  Handling(r)' = Handling(r) /\ Held(r)' = Held(r)
<1>1. Handling(r)' = Handling(r)
  BY DEF Handling, SameWork
<1>2. Held(r)' = Held(r)
  BY DEF Held, SameWork
<1> QED
  BY <1>1, <1>2

\* A controller that neither begins nor ends a wait in disconnect() of r.
SameWait(c, r) ==
  (target'[c] = r /\ cpc'[c] \in {"dwait", "dwoken"})
    <=> (target[c] = r /\ cpc[c] \in {"dwait", "dwoken"})

LEMMA StatusKept ==
  ASSUME NEW r, connected_'[r] = connected_[r], \A c \in Controllers : SameWait(c, r)
  PROVE  Status(r)' = Status(r)
<1>1. Closing(r)' <=> Closing(r)
  BY DEF Closing, SameWait
<1> QED
  BY <1>1 DEF Status

Same(r) == SameQueue(r) /\ Held(r)' = Held(r) /\ Status(r)' = Status(r)

LEMMA SimStutter ==
  ASSUME \A r \in Stages : Same(r)
  PROVE  UNCHANGED Abstract!vars
  BY DEF Same, SameQueue, Abstract!vars

LEMMA SimInit == Init => Abstract!Init
<1> SUFFICES ASSUME Init PROVE Abstract!Init
  OBVIOUS
<1>1. IInv
  BY InitInv
<1>2. ASSUME NEW s \in Stages
      PROVE  Committed(s) = <<>> /\ Kept(s) = <<>> /\ Held(s) = {} /\ Status(s) = "closed"
  <2>1. s \in AllStages /\ event_list_[s] = <<>> /\ ~connected_[s]
    BY DEF Init, AllStages
  <2>2. Tickets(s) = 0
    <3>1. Len(<<>>) = 0
      OBVIOUS
    <3> QED
      BY <1>1, <2>1, <3>1, TicketsAre DEF Promises
  <2>3. Committed(s) = <<>> /\ Kept(s) = <<>>
    <3>1. <<>> \in Seq(Events) /\ Len(<<>>) = 0
      OBVIOUS
    <3> QED
      BY <2>1, <2>2, <3>1, WholeSplit DEF Committed, Kept
  <2>4. Held(s) = {}
    BY DEF Held, Init
  <2>5. ~Closing(s)
    BY DEF Closing, Init
  <2> QED
    BY <2>1, <2>3, <2>4, <2>5 DEF Status
<1> QED
  BY <1>2 DEF Abstract!Init

\* add_event() is StageQueue's Accept.
LEMMA SimAccept ==
  ASSUME IInv, IInv', NEW t, NEW s \in Stages, NEW e \in Events, add_event(t, s, e),
         \A r \in Stages : Handling(r)' = Handling(r)
  PROVE  Abstract!Accept(s, e)
<1>1. /\ event_list_[s] \in Seq(Events) /\ s \in AllStages
      /\ TypeOK
  BY QueueType DEF IInv
<1> DEFINE q == event_list_[s]
           k == Tickets(s)
<1>2. q \in Seq(Events) /\ Len(q) \in Nat
  BY <1>1
<1>3. /\ event_list_'[s] = Append(q, e)
      /\ \A r \in Stages \ {s} : event_list_'[r] = event_list_[r]
      /\ \A r \in Stages \ {s} : event_ref_'[r] = event_ref_[r]
      /\ event_ref_'[s] = IF connected_[s] THEN event_ref_[s] + 1 ELSE event_ref_[s]
  BY <1>1 DEF add_event, TypeOK, AllStages
<1>4. \A r \in Stages \ {s} : SameQueue(r)
  BY <1>3, QueueKept DEF AllStages
<1>5. /\ k \in Nat /\ k <= Len(q) /\ (connected_[s] => k = Len(q))
      /\ Cardinality(Handling(s)) \in Nat
      /\ event_ref_[s] = k + Cardinality(Handling(s))
  BY <1>1, TicketsAre DEF Promises
<1>6. k' \in Nat /\ event_ref_'[s] = k' + Cardinality(Handling(s))
  BY <1>1, TicketsAreNext DEF Promises
<1>7. Len(Append(q, e)) = Len(q) + 1
  BY <1>2
<1>8. /\ Committed(s) = SubSeq(q, 1, k) /\ Kept(s) = SubSeq(q, k + 1, Len(q))
      /\ Committed(s)' = SubSeq(Append(q, e), 1, k')
      /\ Kept(s)' = SubSeq(Append(q, e), k' + 1, Len(q) + 1)
  BY <1>3, <1>7 DEF Committed, Kept
<1>9. Append(q, e) \in Seq(Events)
  BY <1>2
<1>10. Status(s) = "open" <=> connected_[s]
  BY DEF Status
<1> HIDE DEF q, k
<1>11. CASE connected_[s]
  <2>1. k = Len(q) /\ k' = Len(q) + 1
    BY <1>2, <1>3, <1>5, <1>6, <1>11
  <2>2. Committed(s) = q /\ Kept(s) = <<>>
    BY <1>2, <1>8, <2>1, WholeSplit
  <2>3. Committed(s)' = Append(q, e) /\ Kept(s)' = <<>>
    BY <1>7, <1>8, <1>9, <2>1, WholeSplit
  <2> QED
    BY <1>4, <1>10, <1>11, <2>2, <2>3 DEF Abstract!Accept, SameQueue
<1>12. CASE ~connected_[s]
  <2>1. k' = k
    BY <1>2, <1>3, <1>5, <1>6, <1>12
  <2>2. k \in 0 .. Len(q)
    BY <1>2, <1>5
  <2>3. Committed(s)' = Committed(s) /\ Kept(s)' = Append(Kept(s), e)
    BY <1>2, <1>8, <2>1, <2>2, AppendSplit
  <2> QED
    BY <1>4, <1>10, <1>12, <2>3 DEF Abstract!Accept, SameQueue
<1> QED
  BY <1>11, <1>12

LEMMA SimPresent ==
  ASSUME IInv, NEW e, ~InUse(e)
  PROVE  ~Abstract!Present(e)
<1> SUFFICES ASSUME NEW s \in Stages,
                    e \in Abstract!Elements(Committed(s)) \cup Abstract!Elements(Kept(s))
                          \cup Held(s)
             PROVE  InUse(e)
  BY DEF Abstract!Present
<1>1. s \in AllStages /\ event_list_[s] \in Seq(Events)
  BY QueueType
<1> DEFINE q == event_list_[s]
           k == Tickets(s)
<1>2. k \in Nat /\ k <= Len(q) /\ Len(q) \in Nat /\ q \in Seq(Events)
  BY <1>1, TicketsAre DEF Promises
<1>3. \A i \in 1 .. Len(q) : q[i] = e => InUse(e)
  BY <1>1 DEF InUse
<1> HIDE DEF q, k
<1>4. CASE e \in Abstract!Elements(Committed(s))
  <2>1. PICK i \in DOMAIN SubSeq(q, 1, k) : e = SubSeq(q, 1, k)[i]
    BY <1>4 DEF Abstract!Elements, Committed, q, k
  <2>2. i \in 1 .. Len(q) /\ SubSeq(q, 1, k)[i] = q[i]
    BY <1>2, <2>1
  <2> QED
    BY <1>3, <2>1, <2>2
<1>5. CASE e \in Abstract!Elements(Kept(s))
  <2>1. PICK i \in DOMAIN SubSeq(q, k + 1, Len(q)) : e = SubSeq(q, k + 1, Len(q))[i]
    BY <1>5 DEF Abstract!Elements, Kept, q, k
  <2>2. k + i \in 1 .. Len(q) /\ SubSeq(q, k + 1, Len(q))[i] = q[k + i]
    BY <1>2, <2>1
  <2> QED
    BY <1>3, <2>1, <2>2
<1>6. CASE e \in Held(s)
  BY <1>6 DEF Held, InUse
<1> QED
  BY <1>4, <1>5, <1>6

\* The server's event loop adds an event.
LEMMA SimAdd ==
  ASSUME IInv, IInv', NEW p \in Producers, NEW s \in Stages, NEW e \in Events,
         ProducerAdd(p, s, e)
  PROVE  Abstract!Next
<1>1. /\ add_event(p, s, e) /\ ~InUse(e)
      /\ UNCHANGED <<connected_, wpc, serving, ev, cpc, target>>
  BY DEF ProducerAdd, workVars, ctrlVars
<1>2. \A r : Handling(r)' = Handling(r) /\ Held(r)' = Held(r)
  BY <1>1, WorkKept DEF SameWork
<1>3. \A r : Status(r)' = Status(r)
  BY <1>1, StatusKept DEF SameWait
<1>4. Abstract!Accept(s, e)
  BY <1>1, <1>2, SimAccept
<1>5. ~Abstract!Present(e)
  BY <1>1, SimPresent
<1>6. Abstract!Add(s, e)
  BY <1>2, <1>3, <1>4, <1>5 DEF Abstract!Add
<1> QED
  BY <1>6 DEF Abstract!Next

\* remove_event() and the dispatch to a pipeline stage's handle_event().
LEMMA SimTakeUp ==
  ASSUME IInv, IInv', NEW w \in Workers, NEW s \in Stages, RemoveEvent(w), serving[w] = s
  PROVE  Abstract!Next
<1> DEFINE q == event_list_[s]
           k == Tickets(s)
<1>1. /\ q \in Seq(Events) /\ s \in AllStages /\ s # Killer /\ TypeOK
  BY QueueType DEF IInv
<1>2. /\ wpc[w] = "popped" /\ q # <<>>
      /\ ev' = [ev EXCEPT ![w] = Head(q)]
      /\ event_list_' = [event_list_ EXCEPT ![s] = Tail(q)]
      /\ wpc' = [wpc EXCEPT ![w] = "handle"]
      /\ UNCHANGED <<connected_, event_ref_, serving, cpc, target>>
  BY <1>1 DEF RemoveEvent, dispatch, queue_of, ctrlVars
<1>3. /\ \A v \in Workers \ {w} : wpc'[v] = wpc[v] /\ ev'[v] = ev[v] /\ serving'[v] = serving[v]
      /\ wpc'[w] = "handle" /\ ev'[w] = Head(q) /\ serving'[w] = s
  BY <1>1, <1>2 DEF TypeOK
<1>4. ASSUME NEW r \in Stages \ {s}
      PROVE  SameQueue(r) /\ Held(r)' = Held(r)
  <2>1. \A v \in Workers : SameWork(v, r)
    BY <1>3 DEF SameWork
  <2>2. event_list_'[r] = event_list_[r] /\ event_ref_'[r] = event_ref_[r] /\ r \in AllStages
    BY <1>1, <1>2 DEF TypeOK, AllStages
  <2> QED
    BY <2>1, <2>2, WorkKept, QueueKept
<1>5. Held(s)' = Held(s) \cup {Head(q)}
  BY <1>2, <1>3 DEF Held
<1>6. Cardinality(Handling(s)') = Cardinality(Handling(s)) + 1
  <2>1. Handling(s)' = Handling(s) \cup {w} /\ w \notin Handling(s)
    BY <1>2, <1>3 DEF Handling
  <2>2. IsFiniteSet(Handling(s))
    BY <1>1, TicketsAre DEF Promises
  <2> QED
    BY <2>1, <2>2, FS_AddElement
<1>7. /\ k \in Nat /\ k <= Len(q) /\ Len(q) \in Nat
      /\ Cardinality(Handling(s)) \in Nat
      /\ event_ref_[s] = k + Cardinality(Handling(s))
  BY <1>1, TicketsAre DEF Promises
<1>8. Tickets(s)' \in Nat /\ event_ref_'[s] = Tickets(s)' + Cardinality(Handling(s)')
  BY <1>1, <1>3, TicketsAreNext DEF Promises
<1>9. Tickets(s)' = k - 1 /\ k \in 1 .. Len(q)
  <2>1. event_ref_'[s] = event_ref_[s]
    BY <1>2
  <2> HIDE DEF q, k
  <2> QED
    BY <2>1, <1>6, <1>7, <1>8
<1>10. event_list_'[s] = Tail(q)
  BY <1>1, <1>2 DEF TypeOK
<1>11. Len(Tail(q)) = Len(q) - 1 /\ k - 1 + 1 = k
  BY <1>1, <1>2, <1>7
<1>12. /\ Committed(s) = SubSeq(q, 1, k) /\ Kept(s) = SubSeq(q, k + 1, Len(q))
       /\ Committed(s)' = SubSeq(Tail(q), 1, k - 1)
       /\ Kept(s)' = SubSeq(Tail(q), k, Len(q) - 1)
  BY <1>3, <1>9, <1>10, <1>11 DEF Committed, Kept
<1>13. /\ Committed(s) # <<>> /\ Head(q) = Head(Committed(s))
       /\ Committed(s)' = Tail(Committed(s)) /\ Kept(s)' = Kept(s)
  <2>1. q \in Seq(Events) /\ k \in 1 .. Len(q)
    BY <1>1, <1>9
  <2> HIDE DEF q, k
  <2>2. /\ SubSeq(q, 1, k) # <<>>
        /\ Head(SubSeq(q, 1, k)) = Head(q)
        /\ SubSeq(Tail(q), 1, k - 1) = Tail(SubSeq(q, 1, k))
        /\ SubSeq(Tail(q), k, Len(q) - 1) = SubSeq(q, k + 1, Len(q))
    BY <2>1, TailSplit
  <2> QED
    BY <1>12, <2>2
<1>14. \A r : Status(r)' = Status(r)
  BY <1>2, StatusKept DEF SameWait
<1>15. Status(s) # "closed"
  <2>1. event_ref_[s] > 0
    BY <1>1, ServerHasReference DEF IInv
  <2>2. connected_[s] \/ Closing(s)
    BY <1>1, <2>1 DEF IInv, ControlInv, StageControl
  <2> QED
    BY <2>2 DEF Status
<1> HIDE DEF q, k
<1>16. Abstract!TakeUp(s)
  <2>1. [r \in Stages |-> Held(r)']
          = [[r \in Stages |-> Held(r)] EXCEPT ![s] = @ \cup {Head(Committed(s))}]
    BY <1>4, <1>5, <1>13
  <2>2. [r \in Stages |-> Committed(r)']
          = [[r \in Stages |-> Committed(r)] EXCEPT ![s] = Tail(@)]
    BY <1>4, <1>13 DEF SameQueue
  <2>3. [r \in Stages |-> Kept(r)'] = [r \in Stages |-> Kept(r)]
    BY <1>4, <1>13 DEF SameQueue
  <2>4. [r \in Stages |-> Status(r)'] = [r \in Stages |-> Status(r)]
    BY <1>14
  <2> QED
    BY <1>13, <1>15, <2>1, <2>2, <2>3, <2>4 DEF Abstract!TakeUp
<1> QED
  BY <1>16 DEF Abstract!Next

\* A handler lets go of its event, whose only owner it is.
LEMMA HandlerEnds ==
  ASSUME IInv, OwnerControl, NEW w \in Workers, NEW s, serving[w] = s, wpc[w] = "handle",
         ev' = [ev EXCEPT ![w] = None], wpc' = [wpc EXCEPT ![w] = "release"],
         serving' = serving
  PROVE  /\ s \in Stages /\ ev[w] \in Held(s) /\ ev[w] \in Events
         /\ \A r \in Stages : Handling(r)' = Handling(r)
         /\ \A r \in Stages \ {s} : Held(r)' = Held(r)
         /\ Held(s)' = Held(s) \ {ev[w]}
<1>1. TypeOK /\ WorkerControl
  BY DEF IInv, ControlInv
<1>2. s \in Stages /\ ev[w] \in Events
  BY <1>1 DEF WorkerControl
<1>3. /\ \A v \in Workers \ {w} : wpc'[v] = wpc[v] /\ ev'[v] = ev[v]
      /\ wpc'[w] = "release" /\ ev'[w] = None
  BY <1>1 DEF TypeOK
<1>4. \A v \in Workers \ {w} : ev[v] # ev[w]
  BY <1>2 DEF OwnerControl
<1>5. ev[w] \in Held(s)
  BY DEF Held
<1>6. \A r \in Stages : Handling(r)' = Handling(r)
  BY <1>3 DEF Handling
<1>7. \A r \in Stages \ {s} : Held(r)' = Held(r)
  <2> SUFFICES ASSUME NEW r \in Stages \ {s} PROVE Held(r)' = Held(r)
    OBVIOUS
  <2>1. \A v \in Workers : SameWork(v, r)
    BY <1>3 DEF SameWork
  <2> QED
    BY <2>1, WorkKept
<1>8. Held(s)' = Held(s) \ {ev[w]}
  BY <1>3, <1>4 DEF Held
<1> QED
  BY <1>2, <1>5, <1>6, <1>7, <1>8

LEMMA SimComplete ==
  ASSUME IInv, IInv', OwnerControl, NEW w \in Workers, NEW s, serving[w] = s,
         HandleDone(w)
  PROVE  Abstract!Next
<1>1. /\ wpc[w] = "handle" /\ ev' = [ev EXCEPT ![w] = None]
      /\ wpc' = [wpc EXCEPT ![w] = "release"]
      /\ UNCHANGED <<event_list_, connected_, event_ref_, serving, cpc, target>>
  BY DEF HandleDone, stageVars, ctrlVars
<1>2. /\ s \in Stages /\ ev[w] \in Held(s) /\ ev[w] \in Events
      /\ \A r \in Stages : Handling(r)' = Handling(r)
      /\ \A r \in Stages \ {s} : Held(r)' = Held(r)
      /\ Held(s)' = Held(s) \ {ev[w]}
  BY <1>1, HandlerEnds
<1>3. \A r \in Stages : SameQueue(r)
  BY <1>1, <1>2, QueueKept DEF AllStages
<1>4. \A r : Status(r)' = Status(r)
  BY <1>1, StatusKept DEF SameWait
<1>5. Abstract!Complete(s, ev[w])
  <2>1. [r \in Stages |-> Held(r)']
          = [[r \in Stages |-> Held(r)] EXCEPT ![s] = @ \ {ev[w]}]
    BY <1>2
  <2>2. /\ [r \in Stages |-> Committed(r)'] = [r \in Stages |-> Committed(r)]
        /\ [r \in Stages |-> Kept(r)'] = [r \in Stages |-> Kept(r)]
    BY <1>3 DEF SameQueue
  <2>3. [r \in Stages |-> Status(r)'] = [r \in Stages |-> Status(r)]
    BY <1>4
  <2> QED
    BY <1>2, <2>1, <2>2, <2>3 DEF Abstract!Complete
<1> QED
  BY <1>2, <1>5 DEF Abstract!Next

LEMMA SimPassOn ==
  ASSUME IInv, IInv', OwnerControl, NEW w \in Workers, NEW s, serving[w] = s,
         NEW r \in Stages, HandleForward(w, r)
  PROVE  Abstract!Next
<1>1. /\ wpc[w] = "handle" /\ ev' = [ev EXCEPT ![w] = None]
      /\ wpc' = [wpc EXCEPT ![w] = "release"]
      /\ add_event(w, r, ev[w]) /\ r \in Pipeline[s]
      /\ UNCHANGED <<connected_, serving, cpc, target>>
  BY DEF HandleForward, ctrlVars
<1>2. /\ s \in Stages /\ ev[w] \in Held(s) /\ ev[w] \in Events
      /\ \A t \in Stages : Handling(t)' = Handling(t)
      /\ \A t \in Stages \ {s} : Held(t)' = Held(t)
      /\ Held(s)' = Held(s) \ {ev[w]}
  BY <1>1, HandlerEnds
<1>3. Abstract!Accept(r, ev[w])
  BY <1>1, <1>2, SimAccept
<1>4. \A t : Status(t)' = Status(t)
  BY <1>1, StatusKept DEF SameWait
<1>5. Abstract!PassOn(s, r, ev[w])
  BY <1>1, <1>2, <1>3, <1>4 DEF Abstract!PassOn
<1> QED
  BY <1>2, <1>5 DEF Abstract!Next

\* connect() of a pipeline stage: the kept events become commitments.
LEMMA SimOpen ==
  ASSUME IInv, IInv', NEW c \in Controllers, NEW s \in Stages, Connect(c, s)
  PROVE  Abstract!Next
<1> DEFINE q == event_list_[s]
<1>1. /\ q \in Seq(Events) /\ s \in AllStages /\ s # None
      /\ TypeOK /\ ControllerControl /\ StageControl
  BY QueueType DEF IInv, ControlInv
<1>2. /\ cpc[c] = "ready" /\ ~Owned(s) /\ ~connected_[s]
      /\ event_ref_' = [event_ref_ EXCEPT ![s] = Len(q)]
      /\ connected_' = [connected_ EXCEPT ![s] = TRUE]
      /\ target' = [target EXCEPT ![c] = s]
      /\ cpc' = [cpc EXCEPT ![c] = "connect"]
      /\ UNCHANGED <<event_list_, wpc, serving, ev>>
  BY DEF Connect, begin_connect, connect_with, workVars
<1>3. ~Closing(s)
  BY <1>2 DEF Closing, Owned
<1>4. Tickets(s) = 0
  <2>1. event_ref_[s] = 0
    BY <1>1, <1>2, <1>3 DEF StageControl
  <2>2. /\ Tickets(s) \in Nat /\ Cardinality(Handling(s)) \in Nat
        /\ event_ref_[s] = Tickets(s) + Cardinality(Handling(s))
    BY <1>1, TicketsAre DEF Promises
  <2> QED
    BY <2>1, <2>2
<1>5. Tickets(s)' = Len(q)
  <2>1. connected_'[s]
    BY <1>1, <1>2 DEF TypeOK
  <2> QED
    BY <1>1, <1>2, <2>1, TicketsAreNext DEF Promises
<1>6. Committed(s)' = Kept(s) /\ Kept(s)' = <<>>
  <2>1. Committed(s)' = SubSeq(q, 1, Len(q)) /\ Kept(s)' = SubSeq(q, Len(q) + 1, Len(q))
    BY <1>2, <1>5 DEF Committed, Kept
  <2>2. Kept(s) = SubSeq(q, 0 + 1, Len(q))
    BY <1>4 DEF Kept
  <2> QED
    BY <1>1, <2>1, <2>2, WholeSplit
<1>7. \A r : Handling(r)' = Handling(r) /\ Held(r)' = Held(r)
  BY <1>2, WorkKept DEF SameWork
<1>8. ASSUME NEW r \in Stages \ {s}
      PROVE  SameQueue(r) /\ Status(r)' = Status(r)
  <2>1. /\ r \in AllStages /\ r # None
        /\ event_ref_'[r] = event_ref_[r] /\ connected_'[r] = connected_[r]
    BY <1>1, <1>2, StageAssumption DEF TypeOK, AllStages
  <2>2. SameQueue(r)
    BY <1>2, <1>7, <2>1, QueueKept
  <2>3. target[c] = None
    BY <1>1, <1>2 DEF ControllerControl
  <2>4. \A d \in Controllers : SameWait(d, r)
    BY <1>1, <1>2, <2>1, <2>3 DEF SameWait, TypeOK
  <2> QED
    BY <2>1, <2>2, <2>4, StatusKept
<1>9. Status(s) = "closed" /\ Status(s)' = "open"
  <2>1. connected_'[s]
    BY <1>1, <1>2 DEF TypeOK
  <2> QED
    BY <1>2, <1>3, <2>1 DEF Status
<1>10. Abstract!Open(s)
  <2>1. [r \in Stages |-> Status(r)'] = [[r \in Stages |-> Status(r)] EXCEPT ![s] = "open"]
    BY <1>8, <1>9
  <2>2. [r \in Stages |-> Committed(r)']
          = [[r \in Stages |-> Committed(r)] EXCEPT ![s] = Kept(s)]
    BY <1>6, <1>8 DEF SameQueue
  <2>3. [r \in Stages |-> Kept(r)'] = [[r \in Stages |-> Kept(r)] EXCEPT ![s] = <<>>]
    BY <1>6, <1>8 DEF SameQueue
  <2>4. [r \in Stages |-> Held(r)'] = [r \in Stages |-> Held(r)]
    BY <1>7
  <2> QED
    BY <1>9, <2>1, <2>2, <2>3, <2>4 DEF Abstract!Open
<1> QED
  BY <1>10 DEF Abstract!Next

\* Steps of a controller that move no event and no reference.
LEMMA ControllerMoves ==
  ASSUME IInv, IInv', UNCHANGED <<event_list_, event_ref_, wpc, serving, ev>>
  PROVE  \A r \in Stages : SameQueue(r) /\ Held(r)' = Held(r)
<1> SUFFICES ASSUME NEW r \in Stages PROVE SameQueue(r) /\ Held(r)' = Held(r)
  OBVIOUS
<1>1. r \in AllStages
  BY DEF AllStages
<1>2. Handling(r)' = Handling(r) /\ Held(r)' = Held(r)
  BY WorkKept DEF SameWork
<1> QED
  BY <1>1, <1>2, QueueKept

\* A stage without references has nothing to do.
LEMMA NothingLeft ==
  ASSUME IInv, NEW s \in Stages, ~(event_ref_[s] > 0)
  PROVE  Committed(s) = <<>> /\ Held(s) = {}
<1>1. event_list_[s] \in Seq(Events) /\ s \in AllStages
  BY QueueType
<1>2. /\ Tickets(s) \in Nat /\ Cardinality(Handling(s)) \in Nat
      /\ IsFiniteSet(Handling(s))
      /\ event_ref_[s] = Tickets(s) + Cardinality(Handling(s))
  BY <1>1, TicketsAre DEF Promises
<1>3. Tickets(s) = 0 /\ Cardinality(Handling(s)) = 0
  BY <1>2
<1>4. Handling(s) = {}
  BY <1>2, <1>3, FS_EmptySet
<1>5. Held(s) = {}
  BY <1>4 DEF Held, Handling
<1> QED
  BY <1>1, <1>3, <1>5, WholeSplit DEF Committed

\* disconnect() finds references and waits for them ...
LEMMA SimBeginClose ==
  ASSUME IInv, IInv', NEW c \in Controllers, NEW s \in Stages, Disconnect(c, s),
         Waits(c, s)
  PROVE  Abstract!Next
<1>1. TypeOK /\ ControllerControl /\ s \in AllStages
  BY DEF IInv, ControlInv, AllStages
<1>2. /\ cpc[c] = "ready" /\ connected_[s]
      /\ connected_' = [connected_ EXCEPT ![s] = FALSE]
      /\ UNCHANGED <<event_list_, event_ref_, wpc, serving, ev>>
  BY DEF Disconnect, begin_disconnect, workVars
<1>3. \A r \in AllStages : Closing(r)' <=> Closing(r) \/ r = s
  BY <1>1, <1>2, ClosingWaits DEF ControllerControl
<1>4. \A r \in Stages \ {s} : Status(r)' = Status(r)
  BY <1>1, <1>2, <1>3 DEF Status, TypeOK, AllStages
<1>5. Status(s) = "open" /\ Status(s)' = "closing"
  BY <1>1, <1>2, <1>3 DEF Status, TypeOK
<1>6. \A r \in Stages : SameQueue(r) /\ Held(r)' = Held(r)
  BY <1>2, ControllerMoves
<1>7. Abstract!BeginClose(s)
  <2>1. [r \in Stages |-> Status(r)'] = [[r \in Stages |-> Status(r)] EXCEPT ![s] = "closing"]
    BY <1>4, <1>5
  <2> QED
    BY <1>5, <1>6, <2>1 DEF Abstract!BeginClose, SameQueue
<1> QED
  BY <1>7 DEF Abstract!Next

\* ... and returns, at once or later, when there are none.
LEMMA SimClose ==
  ASSUME IInv, IInv', NEW c \in Controllers, NEW s \in Stages, Finishes(c, s),
         target[c] \in {None, s}, \A d \in Controllers : d # c => target[d] # s,
         Status(s) # "closed",
         connected_' = connected_ \/ connected_' = [connected_ EXCEPT ![s] = FALSE],
         connected_'[s] = FALSE,
         UNCHANGED <<event_list_, event_ref_, wpc, serving, ev>>
  PROVE  Abstract!Next
<1>1. TypeOK /\ s \in AllStages
  BY DEF IInv, AllStages
<1>2. Committed(s) = <<>> /\ Held(s) = {}
  BY NothingLeft DEF Finishes
<1>3. \A r \in AllStages : Closing(r)' <=> Closing(r) /\ r # s
  BY <1>1, ClosingFinishes
<1>4. \A r \in Stages \ {s} : Status(r)' = Status(r)
  BY <1>1, <1>3 DEF Status, TypeOK, AllStages
<1>5. Status(s) \in {"open", "closing"} /\ Status(s)' = "closed"
  BY <1>1, <1>3 DEF Status
<1>6. \A r \in Stages : SameQueue(r) /\ Held(r)' = Held(r)
  BY ControllerMoves
<1>7. Abstract!Close(s)
  <2>1. [r \in Stages |-> Status(r)'] = [[r \in Stages |-> Status(r)] EXCEPT ![s] = "closed"]
    BY <1>4, <1>5
  <2> QED
    BY <1>2, <1>5, <1>6, <2>1 DEF Abstract!Close, SameQueue
<1> QED
  BY <1>7 DEF Abstract!Next

\* A step that moves none of what StageQueue speaks of.
LEMMA SimQuiet ==
  ASSUME IInv, IInv',
         \A r \in Stages : /\ event_list_'[r] = event_list_[r]
                           /\ event_ref_'[r] = event_ref_[r]
                           /\ connected_'[r] = connected_[r],
         \A r \in Stages, w \in Workers : SameWork(w, r),
         \A r \in Stages, c \in Controllers : SameWait(c, r)
  PROVE  UNCHANGED Abstract!vars
<1>1. ASSUME NEW r \in Stages PROVE Same(r)
  <2>1. Handling(r)' = Handling(r) /\ Held(r)' = Held(r)
    BY WorkKept
  <2>2. Status(r)' = Status(r)
    BY StatusKept
  <2>3. SameQueue(r)
    BY <2>1, QueueKept DEF AllStages
  <2> QED
    BY <2>1, <2>2, <2>3 DEF Same
<1> QED
  BY <1>1, SimStutter

LEMMA SimDisconnect ==
  ASSUME IInv, IInv', NEW c \in Controllers, NEW s \in Stages, Disconnect(c, s)
  PROVE  Abstract!Next
<1>1. TypeOK /\ ControllerControl /\ s \in AllStages
  BY DEF IInv, ControlInv, AllStages
<1>2. /\ cpc[c] = "ready" /\ connected_[s] /\ ~Owned(s)
      /\ connected_' = [connected_ EXCEPT ![s] = FALSE]
      /\ wait_or_finish(c, s)
      /\ UNCHANGED <<event_list_, event_ref_, wpc, serving, ev>>
  BY DEF Disconnect, begin_disconnect, workVars
<1>3. target[c] = None /\ \A d \in Controllers : target[d] # s
  BY <1>1, <1>2 DEF ControllerControl, Owned
<1>4. connected_'[s] = FALSE /\ Status(s) # "closed"
  BY <1>1, <1>2 DEF TypeOK, Status
<1>5. CASE Waits(c, s)
  BY <1>5, SimBeginClose
<1>6. CASE Finishes(c, s)
  BY <1>2, <1>3, <1>4, <1>6, SimClose
<1> QED
  BY <1>2, <1>5, <1>6, DisconnectEffect

LEMMA SimResume ==
  ASSUME IInv, IInv', NEW c \in Controllers, NEW s, target[c] = s, DisconnectResume(c)
  PROVE  Abstract!Next \/ UNCHANGED Abstract!vars
<1>1. TypeOK /\ ControllerControl /\ StageControl
  BY DEF IInv, ControlInv
<1>2. /\ cpc[c] = "dwoken" /\ s \in AllStages
      /\ Waits(c, s) \/ Finishes(c, s)
  BY <1>1, ResumeEffect
<1>3. UNCHANGED <<event_list_, event_ref_, connected_, wpc, serving, ev>>
  BY DEF DisconnectResume, workVars
<1>4. Closing(s) /\ ~connected_[s]
  BY <1>1, <1>2 DEF Closing, StageControl
<1>5. \A d \in Controllers : d # c => target[d] # s
  BY <1>1, <1>2, StageAssumption DEF ControllerControl
<1>6. CASE Waits(c, s)
  <2>1. \A r \in Stages, d \in Controllers : SameWait(d, r)
    BY <1>1, <1>2, <1>6 DEF SameWait, Waits, TypeOK
  <2> QED
    BY <1>3, <2>1, SimQuiet DEF SameWork
<1>7. CASE Finishes(c, s) /\ s \in Stages
  <2>1. connected_'[s] = FALSE /\ Status(s) # "closed"
    BY <1>1, <1>2, <1>3, <1>4 DEF Status, TypeOK
  <2> QED
    BY <1>3, <1>5, <1>7, <2>1, SimClose
<1>8. CASE Finishes(c, s) /\ s = Killer
  <2>1. \A r \in Stages : r # Killer /\ r # None
    BY StageAssumption DEF AllStages
  <2>2. \A r \in Stages, d \in Controllers : SameWait(d, r)
    BY <1>1, <1>8, <2>1 DEF SameWait, Finishes, TypeOK
  <2> QED
    BY <1>3, <2>2, SimQuiet DEF SameWork
<1> QED
  BY <1>2, <1>6, <1>7, <1>8 DEF AllStages

\* release_event() gives back the reference of a service that is over.
LEMMA SimRelease ==
  ASSUME IInv, IInv', NEW w \in Workers, NEW s, serving[w] = s, ReleaseEvent(w)
  PROVE  UNCHANGED Abstract!vars
<1>1. TypeOK /\ WorkerControl /\ wpc[w] = "release"
  BY DEF IInv, ControlInv, ReleaseEvent
<1>2. s \in Stages /\ s \in AllStages /\ None \notin Stages
  BY <1>1, StageAssumption DEF WorkerControl, AllStages
<1>3. /\ release_event(s)
      /\ event_ref_' = [event_ref_ EXCEPT ![s] = @ - 1]
      /\ serving' = [serving EXCEPT ![w] = None]
      /\ wpc' = [wpc EXCEPT ![w] = "loop"]
      /\ UNCHANGED <<event_list_, connected_, ev, target>>
  BY DEF ReleaseEvent, release_event, drop_reference
<1>4. /\ \A v \in Workers \ {w} : serving'[v] = serving[v] /\ wpc'[v] = wpc[v]
      /\ serving'[w] = None /\ wpc'[w] = "loop"
      /\ event_ref_'[s] = event_ref_[s] - 1 /\ event_ref_[s] \in Int
      /\ \A r \in Stages \ {s} : event_ref_'[r] = event_ref_[r]
  BY <1>1, <1>2, <1>3 DEF TypeOK, AllStages
<1>5. ASSUME NEW r \in Stages PROVE Status(r)' = Status(r)
  <2>1. \A d \in Controllers : SameWait(d, r)
    <3>1. \/ cpc' = cpc
          \/ \E d \in Controllers : cpc[d] = "dwait" /\ cpc' = [cpc EXCEPT ![d] = "dwoken"]
      BY <1>3, ReleaseEffect
    <3>2. cpc \in [Controllers -> ControllerPC]
      BY <1>1 DEF TypeOK
    <3> QED
      BY <1>3, <3>1, <3>2 DEF SameWait
  <2> QED
    BY <1>3, <2>1, StatusKept
<1>6. \A r \in Stages : Held(r)' = Held(r)
  BY <1>1, <1>2, <1>3, <1>4 DEF Held
<1>7. ASSUME NEW r \in Stages \ {s} PROVE SameQueue(r)
  <2>1. Handling(r)' = Handling(r)
    BY <1>2, <1>4 DEF Handling
  <2> QED
    BY <1>3, <1>4, <2>1, QueueKept DEF AllStages
<1>8. SameQueue(s)
  <2>1. Handling(s)' = Handling(s) \ {w} /\ w \in Handling(s)
    BY <1>1, <1>2, <1>4 DEF Handling
  <2>2. /\ Tickets(s) \in Nat /\ IsFiniteSet(Handling(s))
        /\ Cardinality(Handling(s)) \in Nat
        /\ event_ref_[s] = Tickets(s) + Cardinality(Handling(s))
    BY <1>2, TicketsAre DEF Promises
  <2>3. Tickets(s)' \in Nat /\ event_ref_'[s] = Tickets(s)' + Cardinality(Handling(s)')
    BY <1>2, TicketsAreNext DEF Promises
  <2>4. Cardinality(Handling(s)') = Cardinality(Handling(s)) - 1
    BY <2>1, <2>2, FS_RemoveElement
  <2>5. Tickets(s)' = Tickets(s)
    BY <1>4, <2>2, <2>3, <2>4
  <2> QED
    BY <1>3, <2>5 DEF SameQueue, Committed, Kept
<1> QED
  BY <1>5, <1>6, <1>7, <1>8, SimStutter DEF Same

\* A signal on run_cond_ reaches a worker that serves no stage.
LEMMA SimSignal ==
  ASSUME IInv, IInv',
         \/ wpc' = wpc
         \/ \E x \in Workers : wpc[x] = "wait" /\ wpc' = [wpc EXCEPT ![x] = "woken"],
         UNCHANGED <<event_list_, event_ref_, connected_, serving, ev, cpc, target>>
  PROVE  UNCHANGED Abstract!vars
<1>1. TypeOK /\ WorkerControl /\ None \notin Stages
  BY StageAssumption DEF IInv, ControlInv, AllStages
<1>2. \A r \in Stages, w \in Workers : SameWork(w, r)
  BY <1>1 DEF SameWork, WorkerControl, TypeOK
<1>3. \A r \in Stages, c \in Controllers : SameWait(c, r)
  BY DEF SameWait
<1> QED
  BY <1>2, <1>3, SimQuiet

\* A worker that serves no pipeline stage, before and after or popped after.
LEMMA SimWorker ==
  ASSUME IInv, IInv', NEW w \in Workers, serving[w] \notin Stages,
         NEW x, NEW t, wpc' = [wpc EXCEPT ![w] = x], serving' = [serving EXCEPT ![w] = t],
         x = "popped" \/ t \notin Stages,
         \A v \in Workers \ {w} : ev'[v] = ev[v],
         \A r \in Stages : /\ event_list_'[r] = event_list_[r]
                           /\ event_ref_'[r] = event_ref_[r]
                           /\ connected_'[r] = connected_[r],
         \A r \in Stages, c \in Controllers : SameWait(c, r)
  PROVE  UNCHANGED Abstract!vars
<1>1. TypeOK
  BY DEF IInv
<1>2. /\ \A v \in Workers \ {w} : serving'[v] = serving[v] /\ wpc'[v] = wpc[v]
      /\ serving'[w] = t /\ wpc'[w] = x
  BY <1>1 DEF TypeOK
<1>3. \A r \in Stages, v \in Workers : SameWork(v, r)
  BY <1>2 DEF SameWork
<1> QED
  BY <1>3, SimQuiet

(* Every step of the stages and the pool is a step of StageQueue, or none. *)
LEMMA SimStep ==
  ASSUME IInv, IInv', OwnerControl, [Next]_vars
  PROVE  Abstract!Next \/ UNCHANGED Abstract!vars
<1>0. /\ TypeOK /\ WorkerControl /\ ControllerControl
      /\ None \notin Stages /\ Killer \notin Stages /\ Killer # None
      /\ \A r \in Stages : r \in AllStages
  BY StageAssumption DEF IInv, ControlInv, AllStages
<1>1. ASSUME NEW t \in Threads, Schedule(t)
      PROVE  UNCHANGED Abstract!vars
  <2>1. /\ schedule(t, adding[t])
        /\ UNCHANGED <<event_list_, event_ref_, connected_, serving, ev, cpc, target>>
    BY <1>1 DEF Schedule, stageVars, ctrlVars
  <2> QED
    BY <2>1, ScheduleEffect, SimSignal
<1>2. ASSUME NEW w \in Workers, WorkerWait(w) \/ SpuriousRun(w)
      PROVE  UNCHANGED Abstract!vars
  <2>1. /\ wpc[w] \in {"loop", "woken", "wait"}
        /\ \E x : wpc' = [wpc EXCEPT ![w] = x]
        /\ UNCHANGED <<event_list_, event_ref_, connected_, serving, ev, cpc, target>>
    BY <1>2 DEF WorkerWait, SpuriousRun, stageVars, ctrlVars
  <2>2. serving[w] = None /\ serving' = [serving EXCEPT ![w] = None]
    BY <1>0, <2>1 DEF WorkerControl, TypeOK
  <2> QED
    BY <1>0, <2>1, <2>2, SimWorker DEF SameWait
<1>3. ASSUME NEW w \in Workers, WorkerPop(w)
      PROVE  UNCHANGED Abstract!vars
  <2>1. /\ wpc[w] \in {"loop", "woken"}
        /\ wpc' = [wpc EXCEPT ![w] = "popped"]
        /\ serving' = [serving EXCEPT ![w] = Head(run_queue_)]
        /\ UNCHANGED <<event_list_, event_ref_, connected_, ev, cpc, target>>
    BY <1>3 DEF WorkerPop, pop_stage, stageVars, ctrlVars
  <2>2. serving[w] = None
    BY <1>0, <2>1 DEF WorkerControl
  <2> QED
    BY <1>0, <2>1, <2>2, SimWorker DEF SameWait
<1>4. ASSUME NEW w \in Workers, RemoveEvent(w)
      PROVE  Abstract!Next \/ UNCHANGED Abstract!vars
  <2>1. serving[w] \in AllStages
    BY <1>0, <1>4 DEF RemoveEvent, dispatch, WorkerControl, TypeOK
  <2>2. CASE serving[w] \in Stages
    BY <1>4, <2>2, SimTakeUp
  <2>3. CASE serving[w] = Killer
    <3>1. /\ wpc' = [wpc EXCEPT ![w] = "kill"]
          /\ ev' = [ev EXCEPT ![w] = Head(queue_of(w))]
          /\ event_list_' = [event_list_ EXCEPT ![Killer] = Tail(queue_of(w))]
          /\ UNCHANGED <<event_ref_, connected_, serving, cpc, target>>
      BY <1>4, <2>3 DEF RemoveEvent, dispatch, ctrlVars
    <3>2. /\ \A r \in Stages : event_list_'[r] = event_list_[r]
          /\ \A v \in Workers \ {w} : ev'[v] = ev[v]
          /\ serving' = [serving EXCEPT ![w] = Killer]
      BY <1>0, <2>3, <3>1 DEF TypeOK
    <3> QED
      BY <1>0, <2>3, <3>1, <3>2, SimWorker DEF SameWait
  <2> QED
    BY <2>1, <2>2, <2>3 DEF AllStages
<1>5. ASSUME NEW w \in Workers, ThreadKill(w)
      PROVE  UNCHANGED Abstract!vars
  <2>1. /\ wpc[w] = "kill" /\ wpc' = [wpc EXCEPT ![w] = "killed"]
        /\ UNCHANGED <<event_list_, event_ref_, connected_, serving, ev, target>>
    BY <1>5 DEF ThreadKill, count_kill, stageVars
  <2>2. serving[w] = Killer /\ serving' = [serving EXCEPT ![w] = Killer]
    BY <1>0, <2>1 DEF WorkerControl, TypeOK
  <2>3. \A r \in Stages, c \in Controllers : SameWait(c, r)
    BY <1>0, <1>5, <2>1, ThreadKillEffect DEF SameWait, TypeOK
  <2> QED
    BY <1>0, <2>1, <2>2, <2>3, SimWorker
<1>6. ASSUME NEW w \in Workers, KillExit(w)
      PROVE  UNCHANGED Abstract!vars
  <2>1. /\ wpc[w] = "killed" /\ wpc' = [wpc EXCEPT ![w] = "none"]
        /\ serving' = [serving EXCEPT ![w] = None]
        /\ ev' = [ev EXCEPT ![w] = None]
        /\ release_event(serving[w])
        /\ event_ref_' = [event_ref_ EXCEPT ![serving[w]] = @ - 1]
        /\ UNCHANGED <<event_list_, connected_, target>>
    BY <1>6 DEF KillExit, release_event, drop_reference
  <2>2. serving[w] = Killer
    BY <1>0, <2>1 DEF WorkerControl
  <2>3. /\ \A r \in Stages : event_ref_'[r] = event_ref_[r]
        /\ \A v \in Workers \ {w} : ev'[v] = ev[v]
    BY <1>0, <2>1, <2>2 DEF TypeOK
  <2>4. \A r \in Stages, c \in Controllers : SameWait(c, r)
    <3>1. \/ cpc' = cpc
          \/ \E d \in Controllers : cpc[d] = "dwait" /\ cpc' = [cpc EXCEPT ![d] = "dwoken"]
      BY <2>1, ReleaseEffect
    <3> QED
      BY <1>0, <2>1, <3>1 DEF SameWait, TypeOK
  <2> QED
    BY <1>0, <2>1, <2>2, <2>3, <2>4, SimWorker
<1>7. ASSUME NEW c \in Controllers, ConnectSchedule(c)
      PROVE  UNCHANGED Abstract!vars
  <2>1. /\ schedule(c, target[c])
        /\ UNCHANGED <<event_list_, event_ref_, connected_, serving, ev, cpc, target>>
    BY <1>7 DEF ConnectSchedule, schedule_backlog, stageVars
  <2> QED
    BY <2>1, ScheduleEffect, SimSignal
<1>8. ASSUME UNCHANGED <<wpc, serving, ev>>,
             \A r \in Stages : /\ event_list_'[r] = event_list_[r]
                               /\ event_ref_'[r] = event_ref_[r]
                               /\ connected_'[r] = connected_[r],
             \A r \in Stages, c \in Controllers : SameWait(c, r)
      PROVE  UNCHANGED Abstract!vars
  <2>1. \A r \in Stages, w \in Workers : SameWork(w, r)
    BY <1>8 DEF SameWork
  <2> QED
    BY <1>8, <2>1, SimQuiet
<1>9. ASSUME NEW c \in Controllers,
             ConnectReturn(c) \/ KillWait(c) \/ SpuriousController(c)
      PROVE  UNCHANGED Abstract!vars
  <2>1. /\ UNCHANGED <<event_list_, event_ref_, connected_, wpc, serving, ev>>
        /\ \/ /\ \/ cpc[c] = "connect" /\ cpc' = [cpc EXCEPT ![c] = "ready"]
                 \/ cpc[c] = "kgen" /\ cpc' = [cpc EXCEPT ![c] = "kwait"]
              /\ target' = [target EXCEPT ![c] = None]
           \/ /\ \/ cpc[c] = "dwait" /\ cpc' = [cpc EXCEPT ![c] = "dwoken"]
                 \/ cpc[c] = "kwait" /\ cpc' = [cpc EXCEPT ![c] = "kwoken"]
              /\ target' = target
    BY <1>9 DEF ConnectReturn, KillWait, begin_kill_wait, SpuriousController, stageVars,
                workVars
  <2>2. \A r \in Stages, d \in Controllers : SameWait(d, r)
    BY <1>0, <2>1 DEF SameWait, TypeOK
  <2> QED
    BY <1>8, <2>1, <2>2
<1>10. ASSUME NEW c \in Controllers, GenKillEvent(c)
       PROVE  UNCHANGED Abstract!vars
  <2>1. /\ event_list_' = [event_list_ EXCEPT ![Killer] = Append(@, KillEvent)]
        /\ \/ event_ref_' = event_ref_
           \/ event_ref_' = [event_ref_ EXCEPT ![Killer] = @ + 1]
        /\ UNCHANGED <<connected_, wpc, serving, ev, cpc, target>>
    BY <1>10 DEF GenKillEvent, add_event, workVars
  <2>2. \A r \in Stages : event_list_'[r] = event_list_[r] /\ event_ref_'[r] = event_ref_[r]
    BY <1>0, <2>1 DEF TypeOK
  <2> QED
    BY <1>8, <2>1, <2>2 DEF SameWait
<1>11. ASSUME NEW c \in Controllers, KillResume(c)
       PROVE  UNCHANGED Abstract!vars
  <2>1. /\ cpc[c] = "kwoken"
        /\ connected_' = [connected_ EXCEPT ![Killer] = FALSE]
        /\ wait_or_finish(c, Killer)
        /\ UNCHANGED <<event_list_, event_ref_, wpc, serving, ev>>
    BY <1>11 DEF KillResume, begin_disconnect, workVars
  <2>2. Waits(c, Killer) \/ Finishes(c, Killer)
    BY <2>1, DisconnectEffect
  <2>3. target[c] = None
    BY <1>0, <2>1 DEF ControllerControl
  <2>4. \A r \in Stages, d \in Controllers : SameWait(d, r)
    BY <1>0, <2>2, <2>3 DEF SameWait, Waits, Finishes, TypeOK
  <2>5. \A r \in Stages : connected_'[r] = connected_[r]
    BY <1>0, <2>1 DEF TypeOK
  <2> QED
    BY <1>8, <2>1, <2>4, <2>5
<1>12. ASSUME NEW c \in Controllers, NEW s \in Stages, SetPool(c, s)
       PROVE  UNCHANGED Abstract!vars
  BY <1>8, <1>12 DEF SetPool, workVars, ctrlVars, SameWait
<1>13. ASSUME NEW c \in Controllers, NEW n \in AddSizes, AddThreads(c, n)
       PROVE  UNCHANGED Abstract!vars
  <2>1. PICK W \in SUBSET {w \in Workers : wpc[w] = "none"} :
          wpc' = [w \in Workers |-> IF w \in W THEN "loop" ELSE wpc[w]]
    BY <1>13 DEF AddThreads
  <2>2. UNCHANGED <<event_list_, event_ref_, connected_, serving, ev, cpc, target>>
    BY <1>13 DEF AddThreads, stageVars, ctrlVars
  <2>3. \A r \in Stages, w \in Workers : SameWork(w, r)
    BY <1>0, <2>1, <2>2 DEF SameWork, WorkerControl
  <2> QED
    BY <2>2, <2>3, SimQuiet DEF SameWait
<1>14. ASSUME NEW c \in Controllers, NEW n \in KillSizes, KillThreads(c, n)
       PROVE  UNCHANGED Abstract!vars
  <2>1. /\ cpc[c] = "ready" /\ UNCHANGED <<event_list_, wpc, serving, ev>>
        /\ Starts(c) \/ Aborts(c)
    BY <1>14, KillThreadsEffect
  <2>2. target[c] = None
    BY <1>0, <2>1 DEF ControllerControl
  <2>3. \A r \in Stages, d \in Controllers : SameWait(d, r)
    BY <1>0, <2>1, <2>2 DEF SameWait, Starts, Aborts, TypeOK
  <2>4. \A r \in Stages : event_ref_'[r] = event_ref_[r] /\ connected_'[r] = connected_[r]
    BY <1>0, <2>1 DEF Starts, Aborts, TypeOK
  <2> QED
    BY <1>8, <2>1, <2>3, <2>4
<1>15. ASSUME UNCHANGED vars PROVE UNCHANGED Abstract!vars
  BY <1>8, <1>15 DEF vars, stageVars, workVars, ctrlVars, SameWait
<1>16. CASE \E p \in Producers, s \in Stages, e \in Events : ProducerAdd(p, s, e)
  BY <1>16, SimAdd
<1>17. ASSUME NEW w \in Workers, HandleDone(w) \/ \E s \in Stages : HandleForward(w, s)
       PROVE  Abstract!Next
  BY <1>17, SimComplete, SimPassOn
<1>18. ASSUME NEW w \in Workers, ReleaseEvent(w) PROVE UNCHANGED Abstract!vars
  BY <1>18, SimRelease
<1>19. ASSUME NEW c \in Controllers, DisconnectResume(c)
       PROVE  Abstract!Next \/ UNCHANGED Abstract!vars
  BY <1>19, SimResume
<1>20. ASSUME NEW c \in Controllers, NEW s \in Stages, Connect(c, s) \/ Disconnect(c, s)
       PROVE  Abstract!Next
  BY <1>20, SimOpen, SimDisconnect
<1> QED
  BY <1>1, <1>2, <1>3, <1>4, <1>5, <1>6, <1>7, <1>9, <1>10, <1>11, <1>12, <1>13, <1>14,
     <1>15, <1>16, <1>17, <1>18, <1>19, <1>20
  DEF Next, WorkerStep, ControllerStep, ControllerCall

(* The stages and their thread pool implement StageQueue, for any pipeline *)
(* and any number of threads: events of a stage are taken up in the order  *)
(* of arrival, every accepted event is kept or handled, and disconnect()   *)
(* returns only when the stage is quiet.                                   *)
THEOREM PoolImplementsStageQueue == Spec => ImplementsStageQueue
<1>1. Spec => []OwnerControl
  BY OwnersInvariant
<1>2. IInv /\ IInv' /\ OwnerControl /\ [Next]_vars => [Abstract!Next]_(Abstract!vars)
  BY SimStep
<1> QED
  BY <1>1, <1>2, SimInit, InvariantHolds, PTL DEF Spec, ImplementsStageQueue, Abstract!Spec

=============================================================================
