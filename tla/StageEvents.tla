---------------------------- MODULE StageEvents -----------------------------
(***************************************************************************)
(* StageEvent and its stack of CompletionCallbacks (stage_event.cpp,       *)
(* callback.cpp) on their way through the stages.  A stage's handler runs  *)
(* on a worker; it may pass the event on, push a callback first, call      *)
(* done(), which reschedules the event on the stage of its top callback,   *)
(* or call done_immediate(), which runs that callback within the caller.   *)
(* What a handler does is up to the stage: it disposes of the event in one *)
(* of these ways and then returns, as the class comments ask of it.        *)
(*                                                                         *)
(* Callbacks are a linked list, freed by the destructor with whatever      *)
(* still hangs on it.  A stage's queue is what StageQueue promises.        *)
(***************************************************************************)
EXTENDS Naturals, Sequences, FiniteSets

CONSTANTS
  Stages, Events, Callbacks, Workers,
  None,
  MaxHops     \* bound: times an event is passed on by handlers

ASSUME EventsAssumption ==
  /\ None \notin Callbacks
  /\ MaxHops \in Nat

VARIABLES
  state,      \* an event: "new", "live", "deleted"
  comp_cb,    \* comp_cb_: the top callback of an event or None
  cb_flag,    \* cb_flag_
  hops,       \* times a handler passed the event on
  next_cb,    \* next_cb_ of a callback
  target,     \* target_stage_
  cb_state,   \* "new", "waiting", "called", "freed"; or an error: "freed_twice",
              \* "dropped" (freed without having been called)
  pushed,     \* history: the event a callback was pushed on
  queue,      \* events queued at a stage
  frames      \* a worker's call stack, innermost handler last

eventVars == <<state, comp_cb, cb_flag, hops>>
callbackVars == <<next_cb, target, cb_state, pushed>>
vars == <<eventVars, callbackVars, queue, frames>>

\* A handler's frame: the stage it runs for, its event, the callback that
\* event_done() was called on (None in handle_event()), the callbacks that
\* were below it, and whether the handler has disposed of the event.
Frame ==
  [stage : Stages, event : Events, cb : Callbacks \cup {None},
   below : SUBSET Callbacks, disposed : BOOLEAN]

TypeOK ==
  /\ state \in [Events -> {"new", "live", "deleted"}]
  /\ comp_cb \in [Events -> Callbacks \cup {None}]
  /\ cb_flag \in [Events -> BOOLEAN] /\ hops \in [Events -> 0 .. MaxHops]
  /\ next_cb \in [Callbacks -> Callbacks \cup {None}]
  /\ target \in [Callbacks -> Stages \cup {None}]
  /\ cb_state \in [Callbacks -> {"new", "waiting", "called", "freed"}]
  /\ pushed \in [Callbacks -> Events \cup {None}]
  /\ queue \in [Stages -> Seq(Events)]
  /\ frames \in [Workers -> Seq(Frame)]

Init ==
  /\ state = [e \in Events |-> "new"] /\ comp_cb = [e \in Events |-> None]
  /\ cb_flag = [e \in Events |-> FALSE] /\ hops = [e \in Events |-> 0]
  /\ next_cb = [c \in Callbacks |-> None] /\ target = [c \in Callbacks |-> None]
  /\ cb_state = [c \in Callbacks |-> "new"] /\ pushed = [c \in Callbacks |-> None]
  /\ queue = [s \in Stages |-> <<>>]
  /\ frames = [w \in Workers |-> <<>>]

-----------------------------------------------------------------------------
Closed(cbs) == \A c \in cbs : next_cb[c] \in cbs \cup {None}

\* A callback and all that hang on it: what ~CompletionCallback() deletes,
\* and, from comp_cb_, the event's stack.
Chain(cb) ==
  {c \in Callbacks :
     \A cbs \in SUBSET Callbacks : cb \in cbs \cup {None} /\ Closed(cbs) => c \in cbs}

Free(cbs) ==
  cb_state' = [c \in Callbacks |->
                 IF c \notin cbs THEN cb_state[c]
                 ELSE CASE cb_state[c] = "called" -> "freed"
                        [] cb_state[c] = "waiting" -> "dropped"
                        [] OTHER -> "freed_twice"]

Push(w, frame) == [frames EXCEPT ![w] = Append(@, frame)]
Top(w) == frames[w][Len(frames[w])]
Running(w) == frames[w] # <<>> /\ ~Top(w).disposed
Disposed(w) == [frames EXCEPT ![w][Len(frames[w])].disposed = TRUE]

\* Stage::add_event()
AddEvent(s, e) == queue' = [queue EXCEPT ![s] = Append(@, e)]

-----------------------------------------------------------------------------
NewEvent(e, s) ==
  /\ state[e] = "new"
  /\ state' = [state EXCEPT ![e] = "live"]
  /\ AddEvent(s, e)
  /\ UNCHANGED <<comp_cb, cb_flag, hops, callbackVars, frames>>

CallbackFrame(e, cb) ==
  [stage |-> target[cb], event |-> e, cb |-> cb, below |-> Chain(next_cb[cb]),
   disposed |-> FALSE]

\* pop_callback(): the popped callback lets go of the rest.
pop(e, rest_of) ==
  /\ comp_cb' = [comp_cb EXCEPT ![e] = next_cb[comp_cb[e]]]
  /\ next_cb' = [next_cb EXCEPT ![comp_cb[e]] = rest_of]
  /\ cb_state' = [cb_state EXCEPT ![comp_cb[e]] = "called"]

\* Variant: next_cb_ of the popped callback still leads to the others.
pop_callback_keeps_next(e) == pop(e, next_cb[comp_cb[e]])

pop_callback(e) == pop(e, None)

\* done_immediate() with a callback: popped, then event_done().
run_callback(w, e, stack) ==
  /\ cb_flag' = [cb_flag EXCEPT ![e] = FALSE]
  /\ pop_callback(e)
  /\ frames' = [frames EXCEPT ![w] = Append(stack, CallbackFrame(e, comp_cb[e]))]
  /\ UNCHANGED <<state, hops, target, pushed>>

\* Threadpool::run_thread(): an event marked as a callback is given to
\* done_immediate(), any other to the stage's handle_event().
TakeEvent(w, s) ==
  /\ frames[w] = <<>> /\ queue[s] # <<>>
  /\ queue' = [queue EXCEPT ![s] = Tail(@)]
  /\ LET e == Head(queue[s])
     IN  IF cb_flag[e]
           THEN run_callback(w, e, <<>>)
           ELSE /\ frames' = Push(w, [stage |-> s, event |-> e, cb |-> None,
                                      below |-> {}, disposed |-> FALSE])
                /\ UNCHANGED <<eventVars, callbackVars>>

\* The handler passes the event to stage s.
Forward(w, s) ==
  /\ Running(w)
  /\ LET e == Top(w).event
     IN  /\ hops[e] < MaxHops
         /\ hops' = [hops EXCEPT ![e] = @ + 1]
         /\ AddEvent(s, e)
  /\ frames' = Disposed(w)
  /\ UNCHANGED <<state, comp_cb, cb_flag, callbackVars>>

push(w, cb, on_top_of) ==
  /\ Running(w) /\ cb_state[cb] = "new"
  /\ LET e == Top(w).event
     IN  /\ next_cb' = [next_cb EXCEPT ![cb] = on_top_of]
         /\ comp_cb' = [comp_cb EXCEPT ![e] = cb]
         /\ pushed' = [pushed EXCEPT ![cb] = e]
  /\ target' = [target EXCEPT ![cb] = Top(w).stage]
  /\ cb_state' = [cb_state EXCEPT ![cb] = "waiting"]
  /\ UNCHANGED <<state, cb_flag, hops, queue, frames>>

\* Variant: a new callback replaces the stack.
PushCallback_replaces(w, cb) == push(w, cb, None)

\* The handler creates a callback for its stage and pushes it.
PushCallback(w, cb) == push(w, cb, comp_cb[Top(w).event])

\* ~StageEvent(), which deletes the callbacks that are left one by one.
DeleteEvent(e) ==
  /\ state' = [state EXCEPT ![e] = "deleted"]
  /\ Free(Chain(comp_cb[e]))
  /\ comp_cb' = [comp_cb EXCEPT ![e] = None]
  /\ next_cb' = [c \in Callbacks |-> IF c \in Chain(comp_cb[e]) THEN None ELSE next_cb[c]]
  /\ UNCHANGED <<cb_flag, hops, target, pushed, queue>>

reschedule(e, mark, stage) ==
  /\ cb_flag' = [cb_flag EXCEPT ![e] = mark]
  /\ AddEvent(stage, e)
  /\ UNCHANGED <<state, comp_cb, hops, callbackVars>>

\* Variants: the event is not marked before the worker takes it up; it goes to
\* the stage that called done().
event_reschedule_unmarked(w, e) == reschedule(e, FALSE, target[comp_cb[e]])
event_reschedule_own_stage(w, e) == reschedule(e, TRUE, Top(w).stage)

event_reschedule(w, e) == reschedule(e, TRUE, target[comp_cb[e]])

finish(w, over) ==
  /\ Running(w)
  /\ frames' = Disposed(w)
  /\ LET e == Top(w).event
     IN  IF over THEN DeleteEvent(e) ELSE event_reschedule(w, e)

\* done(): rescheduled as a callback, or deleted.
Done(w) == finish(w, comp_cb[Top(w).event] = None)

done_in_place(w, caller) ==
  /\ Running(w)
  /\ LET e == Top(w).event
     IN  IF comp_cb[e] = None
           THEN frames' = caller /\ DeleteEvent(e)
           ELSE run_callback(w, e, caller[w]) /\ UNCHANGED queue

\* Variant: the caller goes on with the event afterwards.
DoneImmediate_goes_on(w) == done_in_place(w, frames)

\* done_immediate(): the callback runs within the caller, or the event is
\* deleted.
DoneImmediate(w) == done_in_place(w, Disposed(w))

\* The handler returns; done_immediate() deletes the callback it ran.
Return(w) ==
  /\ frames[w] # <<>> /\ Top(w).disposed
  /\ Free(IF Top(w).cb = None THEN {} ELSE Chain(Top(w).cb))
  /\ frames' = [frames EXCEPT ![w] = SubSeq(@, 1, Len(@) - 1)]
  /\ UNCHANGED <<eventVars, next_cb, target, pushed, queue>>

-----------------------------------------------------------------------------
Dispose(w) == Done(w) \/ DoneImmediate(w)

Next ==
  \/ \E e \in Events, s \in Stages : NewEvent(e, s)
  \/ \E w \in Workers :
       \/ \E s \in Stages : TakeEvent(w, s) \/ Forward(w, s)
       \/ \E cb \in Callbacks : PushCallback(w, cb)
       \/ Dispose(w)
       \/ Return(w)

Spec == Init /\ [][Next]_vars

\* Workers keep serving the queues, and a handler disposes of its event and
\* returns in the end; which way is left open.
Fairness ==
  /\ \A w \in Workers : WF_vars(Dispose(w) \/ (\E s \in Stages : Forward(w, s)))
  /\ \A w \in Workers : WF_vars(Return(w))
  /\ \A s \in Stages : WF_vars(\E w \in Workers : TakeEvent(w, s))

FairSpec == Spec /\ Fairness

-----------------------------------------------------------------------------
\* The active frames that hold event e, and its places in the queues.
Holders(e) == {w \in Workers : Running(w) /\ Top(w).event = e}
Places(e) ==
  UNION {{<<s, i>> : i \in {j \in DOMAIN queue[s] : queue[s][j] = e}} : s \in Stages}

(* Exactly one handler or queue entry refers to a live event, and none to  *)
(* a deleted one, although done() and done_immediate() hand it over while  *)
(* the caller's frames are still on the stack.                             *)
OneOwner ==
  \A e \in Events :
    Cardinality(Holders(e)) + Cardinality(Places(e)) = IF state[e] = "live" THEN 1 ELSE 0

(* Memory of callbacks: those that wait are exactly the ones on the stacks *)
(* of the live events they were pushed on, so none is dropped; nothing is  *)
(* freed twice or before its call, and a worker that unwinds after a       *)
(* handover frees only what it ran.                                        *)
CallbacksIntact ==
  /\ \A e \in Events : \A c \in Chain(comp_cb[e]) :
       cb_state[c] = "waiting" /\ pushed[c] = e
  /\ \A c \in Callbacks :
       /\ cb_state[c] \notin {"freed_twice", "dropped"}
       /\ cb_state[c] = "waiting" =>
            state[pushed[c]] = "live" /\ c \in Chain(comp_cb[pushed[c]])
  /\ \A w \in Workers : \A i \in DOMAIN frames[w] :
       frames[w][i].cb # None => cb_state[frames[w][i].cb] = "called"

(* An event rescheduled by done() waits, marked, in the queue of the stage *)
(* that created its top callback: it is called back there, and every other *)
(* event goes to handle_event().                                           *)
CalledBackOnItsStage ==
  \A s \in Stages : \A i \in DOMAIN queue[s] :
    LET e == queue[s][i]
    IN  cb_flag[e] => comp_cb[e] # None /\ target[comp_cb[e]] = s

(* Every event is deleted in the end and its callbacks have been executed, *)
(* through whatever mixture of done() and done_immediate().                *)
EventsEnd == \A e \in Events : (state[e] = "live") ~> (state[e] = "deleted")

(* done_immediate() executes the whole callback stack on the current       *)
(* thread: when the callback it ran returns, none of those below it is     *)
(* still waiting.                                                          *)
EntireStackInPlace ==
  \A w \in Workers :
    frames[w] # <<>> /\ Top(w).disposed /\ Len(frames[w]) > 1 =>
      \A c \in Top(w).below : cb_state[c] # "waiting"

=============================================================================
