---------------------------- MODULE SedaPoolInv -----------------------------
(***************************************************************************)
(* The inductive invariant behind the safety properties of SedaPool.       *)
(***************************************************************************)
EXTENDS SedaPool

\* What a worker holds is determined by where it is in run_thread().
WorkerControl ==
  \A w \in Workers :
    /\ wpc[w] \in {"none", "loop", "wait", "woken"} <=> serving[w] = None
    /\ wpc[w] \in {"handle", "release"} => serving[w] \in Stages
    /\ wpc[w] \in {"kill", "killed"} => serving[w] = Killer
    /\ wpc[w] = "handle" => ev[w] \in Events
    /\ adding[w] # None => wpc[w] = "release" /\ adding[w] \in Stages

\* Pipeline events and kill events stay on their own queues.
QueueControl ==
  /\ \A s \in Stages : event_list_[s] \in Seq(Events)
  /\ event_list_[Killer] \in Seq({KillEvent})

\* Only gen_kill_thread_events() adds to killer_'s queue.
AdderControl ==
  /\ \A p \in Producers : adding[p] \in Stages \cup {None}
  /\ \A c \in Controllers :
       adding[c] # None => cpc[c] = "kgen" /\ adding[c] = Killer

\* A controller has a target during connect() and disconnect(), and owns it.
ControllerControl ==
  \A c \in Controllers :
    /\ target[c] # None <=> cpc[c] \in {"connect", "dwait", "dwoken", "kgen"}
    /\ cpc[c] = "connect" => target[c] \in Stages
    /\ cpc[c] = "kgen" => target[c] = Killer
    /\ backlog[c] > 0 => cpc[c] \in {"connect", "kgen"}
    /\ \A d \in Controllers : target[c] # None /\ target[c] = target[d] => c = d

\* thread_mutex_ is held while kill events are generated and while killer_
\* is being disconnected.
MutexControl ==
  \A c \in Controllers :
    thread_mutex_ = c <=> \/ cpc[c] = "kgen"
                          \/ cpc[c] \in {"dwait", "dwoken"} /\ target[c] = Killer

\* killer_ is connected during a kill transaction, and there is only one.
InKill(c) == cpc[c] \in {"kgen", "kwait", "kwoken"}
KillerControl ==
  /\ connected_[Killer] <=> \E c \in Controllers : InKill(c)
  /\ \A c, d \in Controllers : InKill(c) /\ InKill(d) => c = d

Closing(s) == \E c \in Controllers : target[c] = s /\ cpc[c] \in {"dwait", "dwoken"}

\* A stage that is neither connected nor being disconnected has no references.
StageControl ==
  /\ \A s \in AllStages : connected_[s] \/ Closing(s) => th_pool_[s]
  /\ \A s \in AllStages : ~connected_[s] /\ ~Closing(s) => event_ref_[s] = 0
  /\ \A s \in AllStages : Closing(s) => ~connected_[s]
  /\ \A c \in Controllers :
       cpc[c] \in {"connect", "kgen"} => connected_[target[c]]

ControlInv ==
  /\ WorkerControl
  /\ QueueControl
  /\ AdderControl
  /\ ControllerControl
  /\ MutexControl
  /\ KillerControl
  /\ StageControl

\* RefCount and QueueCoversTickets are inductive relative to the control.
IInv == TypeOK /\ ControlInv /\ RefCount /\ QueueCoversTickets /\ ThreadCounts

\* Every kill event is accounted for: in gen[c] while kill_threads() still
\* generates, in threads_to_kill_ from then on.
Killing == {w \in Workers : wpc[w] = "kill"}
KillControl ==
  /\ \A c \in Controllers : cpc[c] = "kgen" =>
       kills[c] = gen[c] + Len(event_list_[Killer]) + Cardinality(Killing)
  /\ (\A c \in Controllers : cpc[c] # "kgen") =>
       threads_to_kill_ = Len(event_list_[Killer]) + Cardinality(Killing)

\* An event has one position on one queue, or one handler.
On(e, s, i) == i \in DOMAIN event_list_[s] /\ event_list_[s][i] = e
OwnerControl ==
  \A e \in Events :
    /\ \A s, r \in AllStages, i, j \in Nat : On(e, s, i) /\ On(e, r, j) => s = r /\ i = j
    /\ \A v, w \in Workers : ev[v] = e /\ ev[w] = e => v = w
    /\ \A s \in AllStages, i \in Nat, w \in Workers : ~(On(e, s, i) /\ ev[w] = e)

=============================================================================
