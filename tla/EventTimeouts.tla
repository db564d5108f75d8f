---------------------------- MODULE EventTimeouts ----------------------------
(***************************************************************************)
(* Deadlines of StageEvents (timeout_info.cpp and the tm_info_ of          *)
(* stage_event.cpp): a TimeoutInfo counts the events that share it and     *)
(* deletes itself with the last; a worker that takes an event off a queue  *)
(* asks whether its deadline has passed before it handles it.  An event    *)
(* belongs to one thread or to a queue (StageEvents!OneOwner); the         *)
(* TimeoutInfo behind it is reached from all the threads that own events   *)
(* sharing it.  Each section under mutex_ is one step.  run_thread() asks  *)
(* when it is built with ENABLE_STAGE_LEVEL_TIMEOUT.                       *)
(***************************************************************************)
EXTENDS Naturals, FiniteSets

CONSTANTS
  Threads, Events,
  Infos,       \* TimeoutInfo objects, each created at most once
  None,
  MaxTime      \* bound: the clock's values

ASSUME TimeoutAssumption ==
  /\ None \notin Infos /\ None \notin Events /\ None \notin Threads /\ "queue" \notin Threads \cup {None}
  /\ IsFiniteSet(Events) /\ MaxTime \in Nat

VARIABLES
  now,           \* gettimeofday(), which may be set back
  owner,         \* an event's thread, "queue", or None when there is no event
  tm_info_,      \* an event's TimeoutInfo or None
  object,        \* a TimeoutInfo: "new", "live", "deleted"
  deadline_, is_timed_out_, ref_cnt_,
  pc,            \* what a thread is about to do, to which event
  told           \* history: the infos that has_timed_out() was TRUE of

infoVars == <<object, deadline_, is_timed_out_, ref_cnt_>>
vars == <<now, owner, tm_info_, infoVars, pc, told>>

Time == 0 .. MaxTime
Step(step, e, i) == [step |-> step, event |-> e, tmi |-> i]
Ready == Step("ready", None, None)
Steps ==
  {Ready} \cup [step : {"detach", "attach", "ask", "drop"}, event : Events,
                tmi : Infos \cup {None}]

TypeOK ==
  /\ now \in Time
  /\ owner \in [Events -> Threads \cup {"queue", None}]
  /\ tm_info_ \in [Events -> Infos \cup {None}]
  /\ object \in [Infos -> {"new", "live", "deleted"}]
  /\ deadline_ \in [Infos -> Time] /\ is_timed_out_ \in [Infos -> BOOLEAN]
  /\ ref_cnt_ \in [Infos -> Nat]
  /\ pc \in [Threads -> Steps]
  /\ told \subseteq Infos

Init ==
  /\ now \in Time
  /\ owner = [e \in Events |-> None] /\ tm_info_ = [e \in Events |-> None]
  /\ object = [i \in Infos |-> "new"]
  /\ deadline_ = [i \in Infos |-> 0] /\ is_timed_out_ = [i \in Infos |-> FALSE]
  /\ ref_cnt_ = [i \in Infos |-> 0]
  /\ pc = [t \in Threads |-> Ready]
  /\ told = {}

Become(t, step) == pc' = [pc EXCEPT ![t] = step]

-----------------------------------------------------------------------------
(* TimeoutInfo, under mutex_ *)

attach(i) ==
  /\ ref_cnt_' = [ref_cnt_ EXCEPT ![i] = @ + 1]
  /\ UNCHANGED <<object, deadline_, is_timed_out_>>

\* Variant: the last but one deletes.
detach_early(i) ==
  /\ ref_cnt_' = [ref_cnt_ EXCEPT ![i] = @ - 1]
  /\ object' = [object EXCEPT ![i] = IF ref_cnt_[i] <= 2 THEN "deleted" ELSE @]
  /\ UNCHANGED <<deadline_, is_timed_out_>>

detach(i) ==
  /\ ref_cnt_' = [ref_cnt_ EXCEPT ![i] = @ - 1]
  /\ object' = [object EXCEPT ![i] = IF ref_cnt_[i] = 1 THEN "deleted" ELSE @]
  /\ UNCHANGED <<deadline_, is_timed_out_>>

release(i) == IF i = None THEN UNCHANGED infoVars ELSE detach(i)

\* Variant: the clock is asked every time.
has_timed_out_now(i) == now >= deadline_[i]

\* The answer, which is_timed_out_ keeps once it is TRUE.
has_timed_out(i) == is_timed_out_[i] \/ now >= deadline_[i]

-----------------------------------------------------------------------------
(* StageEvent, by the thread that owns the event *)

NewEvent(t, e) ==
  /\ pc[t] = Ready /\ owner[e] = None
  /\ owner' = [owner EXCEPT ![e] = t]
  /\ UNCHANGED <<now, tm_info_, infoVars, pc, told>>

\* set_timeout_info(time_t): a new TimeoutInfo, nobody's so far.
set_deadline(t, e, i, d) ==
  /\ pc[t] = Ready /\ owner[e] = t /\ object[i] = "new"
  /\ object' = [object EXCEPT ![i] = "live"]
  /\ deadline_' = [deadline_ EXCEPT ![i] = d]
  /\ Become(t, Step("detach", e, i))
  /\ UNCHANGED <<now, owner, tm_info_, is_timed_out_, ref_cnt_, told>>

\* set_timeout_info(const StageEvent &), of two events of the caller.
share(t, e, f) ==
  /\ pc[t] = Ready /\ owner[e] = t /\ owner[f] = t /\ e # f
  /\ Become(t, Step("detach", e, tm_info_[f]))
  /\ UNCHANGED <<now, owner, tm_info_, infoVars, told>>

\* set_timeout_info(TimeoutInfo *): detach from the previous one, assign...
set_detach(t) ==
  /\ pc[t].step = "detach"
  /\ LET e == pc[t].event
     IN  /\ release(tm_info_[e])
         /\ tm_info_' = [tm_info_ EXCEPT ![e] = pc[t].tmi]
         /\ Become(t, IF pc[t].tmi = None THEN Ready ELSE Step("attach", e, None))
  /\ UNCHANGED <<now, owner, told>>

\* ... and attach.
set_attach(t) ==
  /\ pc[t].step = "attach"
  /\ attach(tm_info_[pc[t].event])
  /\ Become(t, Ready)
  /\ UNCHANGED <<now, owner, tm_info_, told>>

\* Stage::add_event()
Send(e) ==
  /\ owner' = [owner EXCEPT ![e] = "queue"]
  /\ UNCHANGED <<now, tm_info_, infoVars, told>>

\* ~StageEvent()
Delete(e) ==
  /\ release(tm_info_[e])
  /\ tm_info_' = [tm_info_ EXCEPT ![e] = None]
  /\ owner' = [owner EXCEPT ![e] = None]
  /\ UNCHANGED <<now, told>>

\* done(): deleted, or sent back to the stage of a callback.
Dispose(t, e) ==
  /\ pc[t] = Ready /\ owner[e] = t
  /\ Send(e) \/ Delete(e)
  /\ UNCHANGED pc

\* run_thread() takes an event off a queue...
Take(t, e) ==
  /\ pc[t] = Ready /\ owner[e] = "queue"
  /\ owner' = [owner EXCEPT ![e] = t]
  /\ Become(t, Step("ask", e, None))
  /\ UNCHANGED <<now, tm_info_, infoVars, told>>

\* ... and asks whether it has timed out: if not, the handler is called.
Ask(t) ==
  /\ pc[t].step = "ask"
  /\ LET i == tm_info_[pc[t].event]
         late == i # None /\ has_timed_out(i)
     IN  /\ is_timed_out_' = IF late THEN [is_timed_out_ EXCEPT ![i] = TRUE] ELSE is_timed_out_
         /\ told' = IF late THEN told \cup {i} ELSE told
         /\ Become(t, IF late THEN Step("drop", pc[t].event, None) ELSE Ready)
  /\ UNCHANGED <<now, owner, tm_info_, object, deadline_, ref_cnt_>>

\* It has: done(), or done_timeout() of a callback.
Drop(t) ==
  /\ pc[t].step = "drop"
  /\ Send(pc[t].event) \/ Delete(pc[t].event)
  /\ Become(t, Ready)

SetClock(d) == now' = d /\ UNCHANGED <<owner, tm_info_, infoVars, pc, told>>

-----------------------------------------------------------------------------
ThreadStep(t) ==
  \/ set_detach(t) \/ set_attach(t) \/ Ask(t) \/ Drop(t)
  \/ \E e \in Events :
       \/ NewEvent(t, e) \/ Dispose(t, e) \/ Take(t, e)
       \/ \E i \in Infos, d \in Time : set_deadline(t, e, i, d)
       \/ \E f \in Events : share(t, e, f)

Next ==
  \/ \E d \in Time : SetClock(d)
  \/ \E t \in Threads : ThreadStep(t)

Spec == Init /\ [][Next]_vars

-----------------------------------------------------------------------------
Attaching(e) == \E t \in Threads : pc[t].step = "attach" /\ pc[t].event = e
Holders(i) == {e \in Events : tm_info_[e] = i /\ ~Attaching(e)}
\* Created or shared, and about to be assigned by thread t.
Handed(t, i) == pc[t].step = "detach" /\ pc[t].tmi = i

(* A TimeoutInfo is alive exactly as long as some event refers to it or is *)
(* about to: threads that let go of it at the same time delete it once,    *)
(* after the last use, and never while another attaches.                   *)
LiveWhileUsed ==
  \A i \in Infos :
    object[i] = "live" <=>
      \/ \E e \in Events : tm_info_[e] = i
      \/ \E t \in Threads : Handed(t, i)

(* Events that share a deadline agree on it for good: once has_timed_out() *)
(* was TRUE for one, no handler is given any of them, even if the clock is *)
(* set back.                                                               *)
TimedOutForGood ==
  [][\A t \in Threads :
       pc[t].step = "ask" /\ tm_info_[pc[t].event] \in told => pc'[t] # Ready]_vars

(* The count behind it: the events attached, and not those attaching.      *)
RefCountExact == \A i \in Infos : ref_cnt_[i] = Cardinality(Holders(i))

=============================================================================
