-------------------------- MODULE StageEventsProofs --------------------------
(***************************************************************************)
(* For any number of events, callbacks, stages and workers, and whatever   *)
(* mixture of done(), done_immediate() and forwarding the handlers choose: *)
(* an event has one owner, its stack of callbacks stays intact and every   *)
(* callback runs on its stage.                                             *)
(***************************************************************************)
EXTENDS StageEvents, FiniteSetTheorems, TLAPS

\* Worker w's innermost handler owns event e; e waits at place i of stage s.
Holds(w, e) == Running(w) /\ Top(w).event = e
At(e, s, i) == i \in DOMAIN queue[s] /\ queue[s][i] = e

Waiting(c) == cb_state[c] = "waiting"

-----------------------------------------------------------------------------
(* Events *)

\* A handler that called another one has disposed of its event.
CallersDisposed ==
  \A w \in Workers : \A i \in 1 .. Len(frames[w]) - 1 : frames[w][i].disposed

OneHolder ==
  \A e \in Events : \A w, x \in Workers : Holds(w, e) /\ Holds(x, e) => w = x

OnePlace ==
  \A e \in Events : \A s, t \in Stages : \A i, j \in Nat :
    At(e, s, i) /\ At(e, t, j) => s = t /\ i = j

HeldOrQueued ==
  \A e \in Events : \A w \in Workers : \A s \in Stages : \A i \in Nat :
    ~(Holds(w, e) /\ At(e, s, i))

OwnedIsLive ==
  \A e \in Events :
    state[e] = "live" <=> \/ \E w \in Workers : Holds(w, e)
                          \/ \E s \in Stages : \E i \in Nat : At(e, s, i)

OwnerInv == CallersDisposed /\ OneHolder /\ OnePlace /\ HeldOrQueued /\ OwnedIsLive

-----------------------------------------------------------------------------
(* Callbacks *)

\* The links of a stack, seen from one callback: it waits for the event it
\* was pushed on, and so do the top and whatever hangs on it.
Links ==
  /\ \A c \in Callbacks : Waiting(c) => pushed[c] \in Events /\ target[c] \in Stages
  /\ \A e \in Events : comp_cb[e] # None => Waiting(comp_cb[e]) /\ pushed[comp_cb[e]] = e
  /\ \A c \in Callbacks :
       next_cb[c] # None =>
         Waiting(c) /\ Waiting(next_cb[c]) /\ pushed[next_cb[c]] = pushed[c]

\* Nothing leads to the top, and two callbacks never to the same one.
LinksApart ==
  /\ \A c \in Callbacks, e \in Events : next_cb[c] # None => next_cb[c] # comp_cb[e]
  /\ \A c, d \in Callbacks : next_cb[c] # None /\ next_cb[c] = next_cb[d] => c = d

\* Every callback that waits is found from the top of its event's stack.
Found ==
  \A c \in Callbacks :
    Waiting(c) => state[pushed[c]] = "live" /\ c \in Chain(comp_cb[pushed[c]])

\* done_immediate() alone refers to the callback it runs.
RunOnce ==
  /\ \A w \in Workers : \A i \in DOMAIN frames[w] :
       frames[w][i].cb # None => cb_state[frames[w][i].cb] = "called"
  /\ \A w, x \in Workers : \A i \in DOMAIN frames[w] : \A j \in DOMAIN frames[x] :
       frames[w][i].cb # None /\ frames[w][i].cb = frames[x][j].cb => w = x /\ i = j

\* The mark is for events that wait in the queue of their top callback.
Marked ==
  \A e \in Events :
    cb_flag[e] =>
      /\ \A w \in Workers : ~Holds(w, e)
      /\ state[e] # "new"
      /\ \A s \in Stages : \A i \in Nat :
           At(e, s, i) => comp_cb[e] # None /\ target[comp_cb[e]] = s

CallbackInv == Links /\ LinksApart /\ Found /\ RunOnce /\ Marked

Inv == TypeOK /\ OwnerInv /\ CallbackInv

-----------------------------------------------------------------------------
(* Frames and queues *)

(* A worker that runs something has an innermost frame.                    *)
LEMMA TopFrame ==
  ASSUME TypeOK, NEW w \in Workers, frames[w] # <<>>
  PROVE  /\ Len(frames[w]) \in Nat \ {0}
         /\ Len(frames[w]) \in DOMAIN frames[w]
         /\ Top(w) \in Frame
BY DEF TypeOK, Top

(* Disposing of the event changes one flag of the innermost frame.         *)
LEMMA DisposedFrames ==
  ASSUME TypeOK, NEW w \in Workers, frames[w] # <<>>
  PROVE  /\ Disposed(w) \in [Workers -> Seq(Frame)]
         /\ \A x \in Workers \ {w} : Disposed(w)[x] = frames[x]
         /\ Len(Disposed(w)[w]) = Len(frames[w])
         /\ \A i \in DOMAIN frames[w] :
              /\ Disposed(w)[w][i].cb = frames[w][i].cb
              /\ Disposed(w)[w][i].disposed = (i = Len(frames[w]) \/ frames[w][i].disposed)
<1> DEFINE n == Len(frames[w])
           g == [frames[w] EXCEPT ![n].disposed = TRUE]
<1>1. n \in Nat \ {0} /\ n \in DOMAIN frames[w] /\ frames[w] \in Seq(Frame) /\ frames[w][n] \in Frame
  BY TopFrame DEF TypeOK, Top
<1>2. [frames[w][n] EXCEPT !.disposed = TRUE] \in Frame BY <1>1 DEF Frame
<1>3. g \in Seq(Frame) /\ Len(g) = n /\ DOMAIN g = DOMAIN frames[w]
  BY <1>1, <1>2
<1>4. Disposed(w) = [frames EXCEPT ![w] = g] BY DEF Disposed
<1>5. Disposed(w) \in [Workers -> Seq(Frame)] BY <1>3, <1>4 DEF TypeOK
<1>6. Disposed(w)[w] = g /\ \A x \in Workers \ {w} : Disposed(w)[x] = frames[x]
  BY <1>4 DEF TypeOK
<1>7. ASSUME NEW i \in DOMAIN frames[w]
      PROVE  g[i].cb = frames[w][i].cb /\ g[i].disposed = (i = n \/ frames[w][i].disposed)
  <2>1. frames[w][i] \in Frame BY <1>1
  <2> QED BY <1>1, <2>1 DEF Frame
<1> QED BY <1>3, <1>5, <1>6, <1>7

(* add_event() adds one place, at the end of the queue.                    *)
LEMMA QueueAppend ==
  ASSUME TypeOK, NEW s \in Stages, NEW e \in Events, AddEvent(s, e)
  PROVE  /\ queue' \in [Stages -> Seq(Events)]
         /\ \A f \in Events, t \in Stages, i \in Nat :
              At(f, t, i)' <=> At(f, t, i) \/ (f = e /\ t = s /\ i = Len(queue[s]) + 1)
BY DEF TypeOK, AddEvent, At

(* A worker takes the first event; the others move up.                     *)
LEMMA QueueTake ==
  ASSUME TypeOK, NEW s \in Stages, queue[s] # <<>>,
         queue' = [queue EXCEPT ![s] = Tail(@)]
  PROVE  /\ queue' \in [Stages -> Seq(Events)]
         /\ At(Head(queue[s]), s, 1) /\ Head(queue[s]) \in Events
         /\ \A f \in Events, i \in Nat :
              At(f, s, i)' <=> i # 0 /\ At(f, s, i + 1)
         /\ \A f \in Events, t \in Stages \ {s}, i \in Nat :
              At(f, t, i)' <=> At(f, t, i)
<1>1. queue[s] \in Seq(Events) /\ Len(queue[s]) \in Nat \ {0} BY DEF TypeOK
<1>2. queue'[s] = Tail(queue[s]) /\ \A t \in Stages \ {s} : queue'[t] = queue[t]
  BY DEF TypeOK
<1>3. queue' \in [Stages -> Seq(Events)] BY <1>1 DEF TypeOK
<1>4. At(Head(queue[s]), s, 1) /\ Head(queue[s]) \in Events BY <1>1 DEF At
<1>5. ASSUME NEW f \in Events, NEW i \in Nat PROVE At(f, s, i)' <=> i # 0 /\ At(f, s, i + 1)
  <2>1. DOMAIN Tail(queue[s]) = 1 .. Len(queue[s]) - 1 BY <1>1
  <2>2. DOMAIN queue[s] = 1 .. Len(queue[s]) BY <1>1
  <2>3. \A j \in 1 .. Len(queue[s]) - 1 : Tail(queue[s])[j] = queue[s][j + 1] BY <1>1
  <2>4. At(f, s, i)' <=> i \in 1 .. Len(queue[s]) - 1 /\ Tail(queue[s])[i] = f
    BY <1>2, <2>1 DEF At
  <2>5. At(f, s, i + 1) <=> i + 1 \in 1 .. Len(queue[s]) /\ queue[s][i + 1] = f
    BY <2>2 DEF At
  <2>6. i \in 1 .. Len(queue[s]) - 1 <=> i # 0 /\ i + 1 \in 1 .. Len(queue[s]) BY <1>1
  <2> QED BY <2>3, <2>4, <2>5, <2>6
<1>6. \A f \in Events, t \in Stages \ {s}, i \in Nat : At(f, t, i)' <=> At(f, t, i)
  BY <1>2 DEF At
<1> QED BY <1>3, <1>4, <1>5, <1>6

(* A handler that disposes of its event no longer holds it.                *)
LEMMA HoldsDisposed ==
  ASSUME TypeOK, CallersDisposed, NEW w \in Workers, Running(w), frames' = Disposed(w)
  PROVE  /\ CallersDisposed'
         /\ \A x \in Workers, e \in Events : Holds(x, e)' <=> Holds(x, e) /\ x # w
<1>1. frames[w] # <<>> BY DEF Running
<1>2. /\ \A x \in Workers \ {w} : frames'[x] = frames[x]
      /\ Len(frames'[w]) = Len(frames[w]) /\ Len(frames[w]) \in DOMAIN frames[w]
      /\ \A i \in DOMAIN frames[w] :
           frames'[w][i].disposed = (i = Len(frames[w]) \/ frames[w][i].disposed)
  BY <1>1, DisposedFrames, TopFrame
<1>3. \A i \in 1 .. Len(frames[w]) - 1 : i \in DOMAIN frames[w] BY DEF TypeOK
<1>4. ASSUME NEW x \in Workers, NEW i \in 1 .. Len(frames'[x]) - 1 PROVE frames'[x][i].disposed
  <2>1. CASE x = w
    <3>1. frames[w][i].disposed /\ i \in DOMAIN frames[w] BY <1>2, <1>3, <2>1 DEF CallersDisposed
    <3> QED BY <1>2, <2>1, <3>1
  <2>2. CASE x # w BY <1>2, <2>2 DEF CallersDisposed
  <2> QED BY <2>1, <2>2
<1>5. ~Running(w)' BY <1>2 DEF Running, Top
<1>6. \A x \in Workers \ {w}, e \in Events : Holds(x, e)' <=> Holds(x, e)
  BY <1>2 DEF Holds, Running, Top
<1>7. CallersDisposed' BY <1>4 DEF CallersDisposed
<1> QED BY <1>5, <1>6, <1>7 DEF Holds

(* A new handler on a stack of callers that have disposed of their events. *)
LEMMA HoldsPush ==
  ASSUME TypeOK, CallersDisposed, NEW w \in Workers, NEW stack \in Seq(Frame),
         \A i \in DOMAIN stack : stack[i].disposed,
         NEW fr \in Frame, ~fr.disposed, frames' = [frames EXCEPT ![w] = Append(stack, fr)]
  PROVE  /\ frames' \in [Workers -> Seq(Frame)]
         /\ CallersDisposed'
         /\ \A x \in Workers, e \in Events :
              Holds(x, e)' <=> IF x = w THEN e = fr.event ELSE Holds(x, e)
<1>1. /\ frames'[w] = Append(stack, fr) /\ Append(stack, fr) \in Seq(Frame)
      /\ \A x \in Workers \ {w} : frames'[x] = frames[x]
  BY DEF TypeOK
<1>2. /\ Len(Append(stack, fr)) = Len(stack) + 1 /\ Append(stack, fr)[Len(stack) + 1] = fr
      /\ \A i \in 1 .. Len(stack) : i \in DOMAIN stack /\ Append(stack, fr)[i] = stack[i]
      /\ Append(stack, fr) # <<>> /\ Len(stack) \in Nat
  OBVIOUS
<1>3. frames' \in [Workers -> Seq(Frame)] BY <1>1 DEF TypeOK
<1>4. CallersDisposed' BY <1>1, <1>2 DEF CallersDisposed
<1>5. Running(w)' /\ Top(w)' = fr BY <1>1, <1>2 DEF Running, Top
<1>6. \A x \in Workers \ {w}, e \in Events : Holds(x, e)' <=> Holds(x, e)
  BY <1>1 DEF Holds, Running, Top
<1> QED BY <1>3, <1>4, <1>5, <1>6 DEF Holds

(* A handler that returns held nothing, and its caller holds nothing.      *)
LEMMA HoldsPop ==
  ASSUME TypeOK, CallersDisposed, NEW w \in Workers, frames[w] # <<>>, Top(w).disposed,
         frames' = [frames EXCEPT ![w] = SubSeq(@, 1, Len(@) - 1)]
  PROVE  /\ frames' \in [Workers -> Seq(Frame)]
         /\ CallersDisposed'
         /\ \A x \in Workers, e \in Events : Holds(x, e)' <=> Holds(x, e)
<1> DEFINE n == Len(frames[w])
           g == SubSeq(frames[w], 1, n - 1)
<1>1. n \in Nat \ {0} /\ frames[w] \in Seq(Frame) BY TopFrame DEF TypeOK
<1>2. g \in Seq(Frame) /\ Len(g) = n - 1 /\ \A i \in 1 .. n - 1 : g[i] = frames[w][i]
  BY <1>1
<1>3. frames'[w] = g /\ \A x \in Workers \ {w} : frames'[x] = frames[x] BY DEF TypeOK
<1>4. frames' \in [Workers -> Seq(Frame)] BY <1>2 DEF TypeOK
<1>5. CallersDisposed' BY <1>1, <1>2, <1>3 DEF CallersDisposed
<1>6. ~Running(w)'
  <2>1. g # <<>> => n - 1 \in 1 .. n - 1 BY <1>1, <1>2
  <2> QED BY <1>1, <1>2, <1>3, <2>1 DEF Running, Top, CallersDisposed
<1>7. \A x \in Workers \ {w}, e \in Events : Holds(x, e)' <=> Holds(x, e)
  BY <1>3 DEF Holds, Running, Top
<1>8. ~Running(w) BY DEF Running
<1> QED BY <1>4, <1>5, <1>6, <1>7, <1>8 DEF Holds

-----------------------------------------------------------------------------
(* The three ways of Dispose *)

Deletes(w, e) ==
  /\ Holds(w, e) /\ comp_cb[e] = None
  /\ frames' = Disposed(w) /\ DeleteEvent(e)

Reschedules(w, e) ==
  /\ Holds(w, e) /\ comp_cb[e] # None
  /\ frames' = Disposed(w) /\ event_reschedule(w, e)

CallsBack(w, e) ==
  /\ Holds(w, e) /\ comp_cb[e] # None
  /\ run_callback(w, e, Disposed(w)[w]) /\ UNCHANGED queue

(* done() and done_immediate() delete the event exactly when it has no     *)
(* callback left; otherwise they reschedule it or call back in place.      *)
LEMMA DisposeCases ==
  ASSUME TypeOK, NEW w \in Workers, Dispose(w)
  PROVE  \E e \in Events : Deletes(w, e) \/ Reschedules(w, e) \/ CallsBack(w, e)
<1>1. Running(w) BY DEF Dispose, Done, finish, DoneImmediate, done_in_place
<1>2. frames[w] # <<>> BY <1>1 DEF Running
<1>3. Top(w).event \in Events BY <1>2, TopFrame DEF Frame
<1>4. CASE Done(w)
  BY <1>1, <1>3, <1>4 DEF Done, finish, Holds, Deletes, Reschedules
<1>5. CASE DoneImmediate(w)
  BY <1>1, <1>3, <1>5 DEF DoneImmediate, done_in_place, Holds, Deletes, CallsBack
<1> QED BY <1>4, <1>5 DEF Dispose

(* event_done() runs for the stage of the callback, on the same event.     *)
LEMMA CallbackFrameType ==
  ASSUME TypeOK, Links, NEW e \in Events, comp_cb[e] # None
  PROVE  LET fr == CallbackFrame(e, comp_cb[e])
         IN  fr \in Frame /\ ~fr.disposed /\ fr.event = e /\ fr.cb = comp_cb[e]
<1>1. comp_cb[e] \in Callbacks /\ target[comp_cb[e]] \in Stages BY DEF TypeOK, Links
<1>2. Chain(next_cb[comp_cb[e]]) \in SUBSET Callbacks BY DEF Chain
<1> QED BY <1>1, <1>2 DEF CallbackFrame, Frame

(* A worker that takes an event holds it, in handle_event() or in the      *)
(* callback that done_immediate() runs.                                    *)
LEMMA TakeHolds ==
  ASSUME Inv, NEW w \in Workers, NEW s \in Stages, TakeEvent(w, s)
  PROVE  /\ frames' \in [Workers -> Seq(Frame)]
         /\ CallersDisposed'
         /\ cb_flag[Head(queue[s])] => comp_cb[Head(queue[s])] # None
         /\ \A x \in Workers, f \in Events :
              Holds(x, f)' <=> IF x = w THEN f = Head(queue[s]) ELSE Holds(x, f)
<1> DEFINE e == Head(queue[s])
<1>1. e \in Events /\ At(e, s, 1) BY QueueTake DEF TakeEvent, Inv
<1>2. TypeOK /\ CallersDisposed /\ Links /\ frames[w] = <<>>
  BY DEF Inv, OwnerInv, CallbackInv, TakeEvent
<1>0. ASSUME NEW fr \in Frame, ~fr.disposed, fr.event = e,
             frames' = [frames EXCEPT ![w] = Append(<<>>, fr)]
      PROVE  /\ frames' \in [Workers -> Seq(Frame)]
             /\ CallersDisposed'
             /\ \A x \in Workers, f \in Events :
                  Holds(x, f)' <=> IF x = w THEN f = Head(queue[s]) ELSE Holds(x, f)
  <2> DEFINE stack == <<>>
  <2>1. stack \in Seq(Frame) /\ \A i \in DOMAIN stack : stack[i].disposed OBVIOUS
  <2>2. frames' = [frames EXCEPT ![w] = Append(stack, fr)] BY <1>0
  <2> HIDE DEF stack
  <2>3. /\ frames' \in [Workers -> Seq(Frame)]
        /\ CallersDisposed'
        /\ \A x \in Workers, f \in Events :
             Holds(x, f)' <=> IF x = w THEN f = fr.event ELSE Holds(x, f)
    <3> HIDE DEF e
    <3> QED BY <1>0, <1>2, <2>1, <2>2, HoldsPush
  <2> QED BY <1>0, <2>3
<1>3. CASE cb_flag[e]
  <2>1. comp_cb[e] # None BY <1>1, <1>3 DEF Inv, CallbackInv, Marked
  <2>2. frames' = [frames EXCEPT ![w] = Append(<<>>, CallbackFrame(e, comp_cb[e]))]
    BY <1>3 DEF TakeEvent, run_callback
  <2> QED BY <1>0, <1>1, <1>2, <2>1, <2>2, CallbackFrameType
<1>4. CASE ~cb_flag[e]
  <2> DEFINE fr == [stage |-> s, event |-> e, cb |-> None, below |-> {}, disposed |-> FALSE]
  <2>1. fr \in Frame /\ ~fr.disposed /\ fr.event = e BY <1>1 DEF Frame
  <2>2. frames' = [frames EXCEPT ![w] = Append(<<>>, fr)]
    BY <1>2, <1>4 DEF TakeEvent, Push, TypeOK
  <2> QED BY <1>0, <1>4, <2>1, <2>2
<1> QED BY <1>3, <1>4

(* done_immediate() with a callback: the worker goes on holding the event. *)
LEMMA CallsBackHolds ==
  ASSUME Inv, NEW w \in Workers, NEW e \in Events, CallsBack(w, e)
  PROVE  /\ frames' \in [Workers -> Seq(Frame)]
         /\ CallersDisposed'
         /\ \A x \in Workers, f \in Events : Holds(x, f)' <=> Holds(x, f)
<1> DEFINE stack == Disposed(w)[w]
           fr == CallbackFrame(e, comp_cb[e])
<1>1. TypeOK /\ CallersDisposed /\ Links /\ frames[w] # <<>>
  BY DEF Inv, OwnerInv, CallbackInv, CallsBack, Holds, Running
<1>2. stack \in Seq(Frame) /\ Len(stack) = Len(frames[w])
  BY <1>1, DisposedFrames
<1>3. DOMAIN stack = 1 .. Len(frames[w]) /\ DOMAIN frames[w] = 1 .. Len(frames[w])
  BY <1>1, <1>2 DEF TypeOK
<1>4. ASSUME NEW i \in DOMAIN stack PROVE stack[i].disposed
  <2>1. stack[i].disposed = (i = Len(frames[w]) \/ frames[w][i].disposed)
    BY <1>1, <1>3, DisposedFrames
  <2>2. i = Len(frames[w]) \/ i \in 1 .. Len(frames[w]) - 1 BY <1>1, <1>3 DEF TypeOK
  <2> QED BY <1>1, <2>1, <2>2 DEF CallersDisposed
<1>5. fr \in Frame /\ ~fr.disposed /\ fr.event = e BY <1>1, CallbackFrameType DEF CallsBack
<1>6. frames' = [frames EXCEPT ![w] = Append(stack, fr)] BY DEF CallsBack, run_callback
<1> HIDE DEF stack, fr
<1>7. /\ frames' \in [Workers -> Seq(Frame)]
      /\ CallersDisposed'
      /\ \A x \in Workers, f \in Events :
           Holds(x, f)' <=> IF x = w THEN f = e ELSE Holds(x, f)
  BY <1>1, <1>2, <1>4, <1>5, <1>6, HoldsPush
<1>8. \A f \in Events : Holds(w, f) <=> f = e BY DEF CallsBack, Holds
<1> QED BY <1>7, <1>8

-----------------------------------------------------------------------------
(* Owners *)

(* Steps that move no event keep the owners.                               *)
LEMMA SameOwners ==
  ASSUME OwnerInv, CallersDisposed', UNCHANGED <<state, queue>>,
         \A x \in Workers, f \in Events : Holds(x, f)' <=> Holds(x, f)
  PROVE  OwnerInv'
<1>1. \A f \in Events, t \in Stages, i \in Nat : At(f, t, i)' <=> At(f, t, i) BY DEF At
<1> QED BY <1>1 DEF OwnerInv, OneHolder, OnePlace, HeldOrQueued, OwnedIsLive

(* Every step hands an event over whole: from the queue to a handler, from *)
(* a handler to a queue, or out of existence.                              *)
LEMMA OwnerStep == Inv /\ [Next]_vars => OwnerInv'
<1> SUFFICES ASSUME Inv, [Next]_vars PROVE OwnerInv' OBVIOUS
<1> USE DEF Inv
<1>0. TypeOK /\ OwnerInv /\ CallersDisposed BY DEF OwnerInv
<1>a. ASSUME NEW s \in Stages, NEW e \in Events, AddEvent(s, e)
      PROVE  \E n \in Nat :
               /\ ~At(e, s, n)
               /\ \A f \in Events, t \in Stages, i \in Nat :
                    At(f, t, i)' <=> At(f, t, i) \/ (f = e /\ t = s /\ i = n)
  <2> DEFINE n == Len(queue[s]) + 1
  <2>1. n \in Nat /\ ~At(e, s, n) BY DEF TypeOK, At
  <2>2. \A f \in Events, t \in Stages, i \in Nat :
          At(f, t, i)' <=> At(f, t, i) \/ (f = e /\ t = s /\ i = n)
    BY <1>0, <1>a, QueueAppend
  <2> HIDE DEF n
  <2> QED BY <2>1, <2>2
<1>b. ASSUME NEW s \in Stages, NEW e \in Events, NEW w \in Workers, AddEvent(s, e),
             Holds(w, e), frames' = Disposed(w), UNCHANGED state
      PROVE  OwnerInv'
  <2>1. CallersDisposed' /\ \A x \in Workers, f \in Events : Holds(x, f)' <=> Holds(x, f) /\ x # w
    BY <1>0, <1>b, HoldsDisposed DEF Holds
  <2>2. \A f \in Events : Holds(w, f) => f = e BY <1>b DEF Holds
  <2>3. OneHolder' BY <1>0, <2>1 DEF OwnerInv, OneHolder
  <2>4. OnePlace' BY <1>0, <1>a, <1>b DEF OwnerInv, OnePlace, HeldOrQueued
  <2>5. HeldOrQueued' BY <1>0, <1>a, <1>b, <2>1 DEF OwnerInv, OneHolder, HeldOrQueued
  <2>6. OwnedIsLive' BY <1>0, <1>a, <1>b, <2>1, <2>2 DEF OwnerInv, OwnedIsLive
  <2> QED BY <2>1, <2>3, <2>4, <2>5, <2>6 DEF OwnerInv
<1>1. ASSUME NEW e \in Events, NEW s \in Stages, NewEvent(e, s) PROVE OwnerInv'
  <2>1. AddEvent(s, e) /\ UNCHANGED frames /\ state[e] = "new"
        /\ state' = [state EXCEPT ![e] = "live"]
    BY <1>1 DEF NewEvent
  <2>2. \A x \in Workers, f \in Events : Holds(x, f)' <=> Holds(x, f)
    BY <2>1 DEF Holds, Running, Top
  <2>3. CallersDisposed' BY <1>0, <2>1 DEF CallersDisposed
  <2>4. \A f \in Events : state'[f] = IF f = e THEN "live" ELSE state[f]
    BY <2>1 DEF TypeOK
  <2>5. \A x \in Workers : ~Holds(x, e) BY <1>0, <2>1 DEF OwnerInv, OwnedIsLive
  <2>6. \A t \in Stages, i \in Nat : ~At(e, t, i) BY <1>0, <2>1 DEF OwnerInv, OwnedIsLive
  <2>7. OneHolder' BY <1>0, <2>2 DEF OwnerInv, OneHolder
  <2>8. OnePlace' BY <1>0, <1>a, <2>1, <2>6 DEF OwnerInv, OnePlace
  <2>9. HeldOrQueued' BY <1>0, <1>a, <2>1, <2>2, <2>5 DEF OwnerInv, HeldOrQueued
  <2>10. OwnedIsLive' BY <1>0, <1>a, <2>1, <2>2, <2>4, <2>5, <2>6 DEF OwnerInv, OwnedIsLive
  <2> QED BY <2>3, <2>7, <2>8, <2>9, <2>10 DEF OwnerInv
<1>2. ASSUME NEW w \in Workers, NEW s \in Stages, TakeEvent(w, s) PROVE OwnerInv'
  <2>0. PICK e : e = Head(queue[s]) OBVIOUS
  <2>1. /\ CallersDisposed'
        /\ \A x \in Workers, f \in Events : Holds(x, f)' <=> IF x = w THEN f = e ELSE Holds(x, f)
    BY <1>2, <2>0, TakeHolds
  <2>2. /\ e \in Events /\ At(e, s, 1)
        /\ \A f \in Events, i \in Nat : At(f, s, i)' <=> i # 0 /\ At(f, s, i + 1)
        /\ \A f \in Events, t \in Stages \ {s}, i \in Nat : At(f, t, i)' <=> At(f, t, i)
    BY <1>2, <2>0, QueueTake DEF TakeEvent
  <2>3. UNCHANGED state BY <1>2 DEF TakeEvent, run_callback, eventVars
  <2>4. \A f \in Events : ~Holds(w, f) BY <1>2 DEF TakeEvent, Holds, Running
  <2>6. \A f \in Events : ~At(f, s, 0) BY DEF At, TypeOK
  <2>7. \A x \in Workers : ~Holds(x, e) BY <1>0, <2>2 DEF OwnerInv, HeldOrQueued
  <2>8. \A t \in Stages, i \in Nat : ~At(e, t, i)'
    <3> SUFFICES ASSUME NEW t \in Stages, NEW i \in Nat, At(e, t, i)' PROVE FALSE OBVIOUS
    <3>1. CASE t = s BY <1>0, <2>2, <3>1 DEF OwnerInv, OnePlace
    <3>2. CASE t # s BY <1>0, <2>2, <3>2 DEF OwnerInv, OnePlace
    <3> QED BY <3>1, <3>2
  <2>9. OneHolder' BY <1>0, <2>1, <2>2, <2>4, <2>7 DEF OwnerInv, OneHolder
  <2>10. OnePlace'
    <3> SUFFICES ASSUME NEW f \in Events, NEW t \in Stages, NEW u \in Stages, NEW i \in Nat,
                        NEW j \in Nat, At(f, t, i)', At(f, u, j)'
                 PROVE  t = u /\ i = j
      BY DEF OnePlace
    <3>1. At(f, t, IF t = s THEN i + 1 ELSE i) /\ At(f, u, IF u = s THEN j + 1 ELSE j) BY <2>2
    <3> QED BY <1>0, <3>1 DEF OwnerInv, OnePlace
  <2>11. HeldOrQueued' BY <1>0, <2>1, <2>2, <2>8 DEF OwnerInv, HeldOrQueued
  <2>12. OwnedIsLive'
    <3> SUFFICES ASSUME NEW f \in Events
                 PROVE  state'[f] = "live" <=> \/ \E x \in Workers : Holds(x, f)'
                                               \/ \E t \in Stages : \E i \in Nat : At(f, t, i)'
      BY DEF OwnedIsLive
    <3>1. CASE f = e BY <1>0, <2>1, <2>2, <2>3, <3>1 DEF OwnerInv, OwnedIsLive
    <3>2. CASE f # e
      <4>1. (\E x \in Workers : Holds(x, f)') <=> \E x \in Workers : Holds(x, f)
        BY <2>1, <2>4, <3>2
      <4>2. ASSUME NEW t \in Stages, NEW i \in Nat, At(f, t, i)
            PROVE  \E u \in Stages : \E j \in Nat : At(f, u, j)'
        <5>1. CASE t # s BY <2>2, <4>2, <5>1
        <5>2. CASE t = s
          <6>1. i # 0 /\ i # 1 BY <2>2, <2>6, <3>2, <4>2, <5>2 DEF At
          <6>2. i - 1 \in Nat /\ i - 1 # 0 /\ (i - 1) + 1 = i BY <6>1
          <6> QED BY <2>2, <4>2, <5>2, <6>2
        <5> QED BY <5>1, <5>2
      <4>3. ASSUME NEW t \in Stages, NEW i \in Nat, At(f, t, i)'
            PROVE  \E u \in Stages : \E j \in Nat : At(f, u, j)
        <5>1. CASE t # s BY <2>2, <4>3, <5>1
        <5>2. CASE t = s
          <6>1. At(f, s, i + 1) /\ i + 1 \in Nat BY <2>2, <4>3, <5>2
          <6> QED BY <6>1
        <5> QED BY <5>1, <5>2
      <4> QED BY <1>0, <2>3, <4>1, <4>2, <4>3 DEF OwnerInv, OwnedIsLive
    <3> QED BY <3>1, <3>2
  <2> QED BY <2>1, <2>9, <2>10, <2>11, <2>12 DEF OwnerInv
<1>3. ASSUME NEW w \in Workers, NEW s \in Stages, Forward(w, s) PROVE OwnerInv'
  <2>1. frames[w] # <<>> /\ Running(w) BY <1>3 DEF Forward, Running
  <2>2. Top(w).event \in Events BY <2>1, TopFrame DEF Frame
  <2>3. Holds(w, Top(w).event) BY <2>1 DEF Holds
  <2> QED BY <1>3, <1>b, <2>2, <2>3 DEF Forward
<1>4. ASSUME NEW w \in Workers, NEW cb \in Callbacks, PushCallback(w, cb) PROVE OwnerInv'
  <2>1. UNCHANGED <<state, queue, frames>> BY <1>4 DEF PushCallback, push
  <2>2. \A x \in Workers, f \in Events : Holds(x, f)' <=> Holds(x, f)
    BY <2>1 DEF Holds, Running, Top
  <2>3. CallersDisposed' BY <1>0, <2>1 DEF CallersDisposed
  <2> QED BY <1>0, <2>1, <2>2, <2>3, SameOwners
<1>5. ASSUME NEW w \in Workers, Dispose(w) PROVE OwnerInv'
  <2>1. PICK e \in Events : Deletes(w, e) \/ Reschedules(w, e) \/ CallsBack(w, e)
    BY <1>5, DisposeCases
  <2>2. CASE Deletes(w, e)
    <3>1. /\ Holds(w, e) /\ Running(w) /\ frames' = Disposed(w)
          /\ state' = [state EXCEPT ![e] = "deleted"] /\ UNCHANGED queue
      BY <2>2 DEF Deletes, DeleteEvent, Holds
    <3>2. CallersDisposed' /\ \A x \in Workers, f \in Events : Holds(x, f)' <=> Holds(x, f) /\ x # w
      BY <1>0, <3>1, HoldsDisposed
    <3>3. \A f \in Events : Holds(w, f) => f = e BY <3>1 DEF Holds
    <3>4. \A f \in Events, t \in Stages, i \in Nat : At(f, t, i)' <=> At(f, t, i)
      BY <3>1 DEF At
    <3>5. \A f \in Events : state'[f] = IF f = e THEN "deleted" ELSE state[f]
      BY <3>1 DEF TypeOK
    <3>6. OneHolder' BY <1>0, <3>2 DEF OwnerInv, OneHolder
    <3>7. OnePlace' BY <1>0, <3>4 DEF OwnerInv, OnePlace
    <3>8. HeldOrQueued' BY <1>0, <3>2, <3>4 DEF OwnerInv, HeldOrQueued
    <3>9. OwnedIsLive'
      BY <1>0, <3>1, <3>2, <3>3, <3>4, <3>5 DEF OwnerInv, OwnedIsLive, OneHolder, HeldOrQueued
    <3> QED BY <3>2, <3>6, <3>7, <3>8, <3>9 DEF OwnerInv
  <2>3. CASE Reschedules(w, e)
    <3>1. comp_cb[e] \in Callbacks /\ target[comp_cb[e]] \in Stages
      BY <2>3 DEF Reschedules, TypeOK, CallbackInv, Links
    <3> QED BY <1>b, <2>3, <3>1 DEF Reschedules, event_reschedule, reschedule
  <2>4. CASE CallsBack(w, e)
    BY <1>0, <2>4, CallsBackHolds, SameOwners DEF CallsBack, run_callback
  <2> QED BY <2>1, <2>2, <2>3, <2>4
<1>6. ASSUME NEW w \in Workers, Return(w) PROVE OwnerInv'
  BY <1>0, <1>6, HoldsPop, SameOwners DEF Return, eventVars
<1>7. CASE UNCHANGED vars
  <2>1. UNCHANGED <<state, queue, frames>> BY <1>7 DEF vars, eventVars
  <2>2. \A x \in Workers, f \in Events : Holds(x, f)' <=> Holds(x, f)
    BY <2>1 DEF Holds, Running, Top
  <2>3. CallersDisposed' BY <1>0, <2>1 DEF CallersDisposed
  <2> QED BY <1>0, <2>1, <2>2, <2>3, SameOwners
<1> QED BY <1>1, <1>2, <1>3, <1>4, <1>5, <1>6, <1>7 DEF Next

-----------------------------------------------------------------------------
(* Stacks of callbacks *)

(* A set that contains a callback and what hangs on its members contains   *)
(* all that ~CompletionCallback() deletes.                                 *)
LEMMA ChainWithin ==
  ASSUME NEW cb, NEW cbs \in SUBSET Callbacks, cb \in cbs \cup {None}, Closed(cbs)
  PROVE  Chain(cb) \subseteq cbs
BY DEF Chain

(* Without a callback there is nothing to delete.                          *)
LEMMA EmptyChain == Chain(None) = {}
<1>1. Closed({}) BY DEF Closed
<1> QED BY <1>1, ChainWithin

(* A callback that was popped leads nowhere: deleting it deletes only it.  *)
LEMMA SingleChain ==
  ASSUME NEW cb \in Callbacks, next_cb[cb] = None
  PROVE  Chain(cb) = {cb}
<1>1. Closed({cb}) BY DEF Closed
<1>2. Chain(cb) \subseteq {cb} BY <1>1, ChainWithin
<1>3. cb \in Chain(cb) BY EventsAssumption DEF Chain
<1> QED BY <1>2, <1>3

(* What hangs on an event waits, and was pushed on that event.             *)
LEMMA StackWaits ==
  ASSUME TypeOK, Links, NEW e \in Events
  PROVE  \A c \in Chain(comp_cb[e]) : Waiting(c) /\ pushed[c] = e
<1> DEFINE own == {c \in Callbacks : Waiting(c) /\ pushed[c] = e}
<1>1. Closed(own) BY DEF Closed, TypeOK, Links
<1>2. comp_cb[e] \in own \cup {None} BY DEF TypeOK, Links
<1> QED BY <1>1, <1>2, ChainWithin

(* pop_callback() takes the top off; the rest is still found.              *)
LEMMA PopLinks ==
  ASSUME TypeOK, Links, LinksApart, Found, NEW e \in Events, comp_cb[e] # None,
         pop_callback(e), UNCHANGED <<state, target, pushed>>
  PROVE  Links' /\ LinksApart' /\ Found'
<1>0. PICK top \in Callbacks : top = comp_cb[e] BY DEF TypeOK
<1>1. /\ comp_cb' = [comp_cb EXCEPT ![e] = next_cb[top]]
      /\ next_cb' = [next_cb EXCEPT ![top] = None]
      /\ cb_state' = [cb_state EXCEPT ![top] = "called"]
  BY <1>0 DEF pop_callback, pop
<1>2. /\ \A c \in Callbacks : next_cb'[c] = IF c = top THEN None ELSE next_cb[c]
      /\ \A f \in Events : comp_cb'[f] = IF f = e THEN next_cb[top] ELSE comp_cb[f]
      /\ \A c \in Callbacks : Waiting(c)' <=> Waiting(c) /\ c # top
  BY <1>1 DEF TypeOK, Waiting
<1>3. Waiting(top) /\ pushed[top] = e /\ \A c \in Callbacks : next_cb[c] # top
  BY <1>0, EventsAssumption DEF Links, LinksApart
<1>4. next_cb \in [Callbacks -> Callbacks \cup {None}] /\ comp_cb \in [Events -> Callbacks \cup {None}]
  BY DEF TypeOK
<1>5. Links'
  <2>1. \A c \in Callbacks : Waiting(c)' => pushed'[c] \in Events /\ target'[c] \in Stages
    BY <1>2 DEF Links
  <2>2. \A f \in Events : comp_cb'[f] # None => Waiting(comp_cb'[f]) /\ comp_cb'[f] # top
                                                 /\ pushed[comp_cb'[f]] = f
    BY <1>0, <1>2, <1>3, <1>4 DEF Links
  <2>3. \A c \in Callbacks : next_cb'[c] # None =>
          Waiting(c) /\ c # top /\ Waiting(next_cb'[c]) /\ pushed[next_cb'[c]] = pushed[c]
                     /\ next_cb'[c] # top
    BY <1>2, <1>3, <1>4 DEF Links
  <2>4. (\A f \in Events : comp_cb'[f] \in Callbacks \cup {None})
         /\ \A c \in Callbacks : next_cb'[c] \in Callbacks \cup {None}
    BY <1>2, <1>4
  <2>5. \A f \in Events : comp_cb'[f] # None => cb_state'[comp_cb'[f]] = "waiting"
    BY <1>1, <2>2, <2>4 DEF TypeOK, Waiting
  <2>6. \A c \in Callbacks : next_cb'[c] # None =>
          cb_state'[c] = "waiting" /\ cb_state'[next_cb'[c]] = "waiting"
    BY <1>1, <2>3, <2>4 DEF TypeOK, Waiting
  <2> QED BY <2>1, <2>2, <2>3, <2>5, <2>6 DEF Links, Waiting
<1>6. LinksApart' BY <1>0, <1>2, <1>3, <1>4 DEF LinksApart
<1>7. Found'
  <2> SUFFICES ASSUME NEW c \in Callbacks, Waiting(c), c # top,
                      NEW cbs \in SUBSET Callbacks,
                      comp_cb'[pushed[c]] \in cbs \cup {None}, Closed(cbs)'
               PROVE  c \in cbs
    BY <1>2 DEF Found, Chain
  <2>1. pushed[c] \in Events /\ c \in Chain(comp_cb[pushed[c]]) BY DEF Found, Links
  <2>2. \A d \in cbs : d # top => next_cb[d] \in cbs \cup {None} BY <1>2 DEF Closed
  <2>3. CASE pushed[c] = e
    <3>1. Closed(cbs \cup {top}) BY <1>2, <2>2, <2>3 DEF Closed
    <3>2. c \in cbs \cup {top} BY <1>0, <2>1, <2>3, <3>1, ChainWithin
    <3> QED BY <3>2
  <2>4. CASE pushed[c] # e
    <3>1. Closed(cbs \ {top}) BY <1>3, <2>2 DEF Closed
    <3>2. comp_cb[pushed[c]] \in (cbs \ {top}) \cup {None}
      BY <1>2, <1>3, <2>1, <2>4 DEF Links
    <3>3. c \in cbs \ {top} BY <2>1, <3>1, <3>2, ChainWithin
    <3> QED BY <3>3
  <2> QED BY <2>3, <2>4
<1> QED BY <1>5, <1>6, <1>7

(* push_callback() puts a new callback on top of the stack.                *)
LEMMA PushLinks ==
  ASSUME TypeOK, Links, LinksApart, Found, NEW e \in Events, state[e] = "live",
         NEW cb \in Callbacks, cb_state[cb] = "new", NEW s \in Stages,
         next_cb' = [next_cb EXCEPT ![cb] = comp_cb[e]],
         comp_cb' = [comp_cb EXCEPT ![e] = cb],
         pushed' = [pushed EXCEPT ![cb] = e],
         target' = [target EXCEPT ![cb] = s],
         cb_state' = [cb_state EXCEPT ![cb] = "waiting"],
         UNCHANGED state
  PROVE  Links' /\ LinksApart' /\ Found'
<1>1. next_cb \in [Callbacks -> Callbacks \cup {None}] /\ comp_cb \in [Events -> Callbacks \cup {None}]
  BY DEF TypeOK
<1>2. /\ \A c \in Callbacks : next_cb'[c] = IF c = cb THEN comp_cb[e] ELSE next_cb[c]
      /\ \A f \in Events : comp_cb'[f] = IF f = e THEN cb ELSE comp_cb[f]
      /\ \A c \in Callbacks : pushed'[c] = IF c = cb THEN e ELSE pushed[c]
      /\ \A c \in Callbacks : target'[c] = IF c = cb THEN s ELSE target[c]
      /\ \A c \in Callbacks : cb_state'[c] = IF c = cb THEN "waiting" ELSE cb_state[c]
  BY DEF TypeOK
<1>3. ~Waiting(cb) /\ next_cb[cb] = None BY DEF Waiting, Links
<1>4. /\ \A c \in Callbacks : next_cb[c] # cb
      /\ \A f \in Events : comp_cb[f] # cb
  BY <1>3, EventsAssumption DEF Links
<1>5. cb # None BY EventsAssumption
<1>6. Links'
  <2>1. \A c \in Callbacks : Waiting(c)' => pushed'[c] \in Events /\ target'[c] \in Stages
    BY <1>2 DEF Links, Waiting
  <2>2. ASSUME NEW f \in Events, comp_cb'[f] # None
        PROVE  Waiting(comp_cb[f])' /\ pushed'[comp_cb'[f]] = f
    BY <1>1, <1>2, <1>4, <2>2 DEF Links, Waiting
  <2>3. ASSUME NEW c \in Callbacks, next_cb'[c] # None
        PROVE  Waiting(c)' /\ Waiting(next_cb[c])' /\ pushed'[next_cb'[c]] = pushed'[c]
    BY <1>1, <1>2, <1>4, <2>3 DEF Links, Waiting
  <2> QED BY <2>1, <2>2, <2>3 DEF Links
<1>7. LinksApart'
  <2>1. \A f \in Events : comp_cb[e] # None /\ comp_cb[f] = comp_cb[e] => f = e BY DEF Links
  <2> QED BY <1>1, <1>2, <1>3, <1>4, <1>5, <2>1 DEF LinksApart
<1>8. Found'
  <2>1. \A c \in Callbacks : Waiting(c)' => state'[pushed'[c]] = "live"
    BY <1>2 DEF Found, Waiting
  <2>2. ASSUME NEW c \in Callbacks, Waiting(c)', NEW cbs \in SUBSET Callbacks,
               comp_cb'[pushed'[c]] \in cbs \cup {None}, Closed(cbs)'
        PROVE  c \in cbs
    <3>1. Closed(cbs) BY <1>2, <1>3, <2>2 DEF Closed
    <3>2. CASE c = cb BY <1>2, <1>5, <2>2, <3>2
    <3>3. CASE c # cb
      <4>1. Waiting(c) /\ pushed'[c] = pushed[c] /\ pushed[c] \in Events
            /\ c \in Chain(comp_cb[pushed[c]])
        BY <1>2, <2>2, <3>3 DEF Waiting, Found, Links
      <4>2. comp_cb[pushed[c]] \in cbs \cup {None}
        <5>1. CASE pushed[c] = e
          <6>1. cb \in cbs BY <1>2, <1>5, <2>2, <4>1, <5>1
          <6>2. next_cb'[cb] \in cbs \cup {None} BY <2>2, <6>1 DEF Closed
          <6> QED BY <1>2, <5>1, <6>2
        <5>2. CASE pushed[c] # e BY <1>2, <2>2, <4>1, <5>2
        <5> QED BY <5>1, <5>2
      <4> QED BY <3>1, <4>1, <4>2, ChainWithin
    <3> QED BY <3>2, <3>3
  <2> QED BY <2>1, <2>2 DEF Found, Chain
<1> QED BY <1>6, <1>7, <1>8

-----------------------------------------------------------------------------
(* Frames and the callbacks they run *)

(* The frames of a worker, by position.                                    *)
LEMMA FrameAt ==
  ASSUME TypeOK, NEW x \in Workers
  PROVE  /\ Len(frames[x]) \in Nat /\ DOMAIN frames[x] = 1 .. Len(frames[x])
         /\ \A i \in DOMAIN frames[x] : frames[x][i].cb \in Callbacks \cup {None}
<1>1. frames[x] \in Seq(Frame) BY DEF TypeOK
<1>2. \A i \in DOMAIN frames[x] : frames[x][i] \in Frame BY <1>1
<1> QED BY <1>1, <1>2 DEF Frame

(* A worker enters a handler, of a stage or of a callback just popped.     *)
LEMMA RunOncePush ==
  ASSUME TypeOK, RunOnce, NEW w \in Workers, NEW stack \in Seq(Frame),
         Len(stack) = Len(frames[w]),
         \A i \in DOMAIN frames[w] : stack[i].cb = frames[w][i].cb,
         NEW fr \in Frame, fr.cb # None => Waiting(fr.cb) /\ cb_state'[fr.cb] = "called",
         \A c \in Callbacks : cb_state[c] = "called" => cb_state'[c] = "called",
         frames' = [frames EXCEPT ![w] = Append(stack, fr)]
  PROVE  RunOnce'
<1>1. /\ frames'[w] = Append(stack, fr)
      /\ \A x \in Workers \ {w} : frames'[x] = frames[x]
  BY DEF TypeOK
<1>2. PICK n \in Nat : n = Len(frames[w]) BY DEF TypeOK
<1>3. /\ DOMAIN frames[w] = 1 .. n /\ DOMAIN frames'[w] = 1 .. n + 1
      /\ \A i \in 1 .. n : frames'[w][i].cb = frames[w][i].cb
      /\ frames'[w][n + 1].cb = fr.cb
  <2>1. DOMAIN frames[w] = 1 .. n BY <1>2, FrameAt
  <2>2. Len(Append(stack, fr)) = n + 1 /\ DOMAIN Append(stack, fr) = 1 .. n + 1 BY <1>2
  <2>3. \A i \in 1 .. n : Append(stack, fr)[i] = stack[i] BY <1>2
  <2>4. Append(stack, fr)[n + 1] = fr BY <1>2
  <2> QED BY <1>1, <2>1, <2>2, <2>3, <2>4
<1>4. \A x \in Workers : \A i \in DOMAIN frames[x] :
        frames[x][i].cb \in Callbacks \cup {None} /\ frames'[x][i].cb = frames[x][i].cb
  <2>1. \A x \in Workers : \A i \in DOMAIN frames[x] : frames[x][i].cb \in Callbacks \cup {None}
    BY FrameAt
  <2> QED BY <1>1, <1>3, <2>1
<1>5. \A x \in Workers : \A i \in DOMAIN frames'[x] :
        i \in DOMAIN frames[x] \/ (x = w /\ i = n + 1)
  BY <1>1, <1>3
<1>6. \A x \in Workers : \A i \in DOMAIN frames[x] :
        fr.cb # None => frames[x][i].cb # fr.cb
  BY DEF RunOnce, Waiting
<1>7. \A x \in Workers : \A i \in DOMAIN frames'[x] :
        frames'[x][i].cb # None => cb_state'[frames'[x][i].cb] = "called"
  BY <1>3, <1>4, <1>5 DEF RunOnce
<1>8. ASSUME NEW x \in Workers, NEW y \in Workers, NEW i \in DOMAIN frames'[x],
             NEW j \in DOMAIN frames'[y], frames'[x][i].cb # None,
             frames'[x][i].cb = frames'[y][j].cb
      PROVE  x = y /\ i = j
  BY <1>3, <1>4, <1>5, <1>6, <1>8 DEF RunOnce
<1> QED BY <1>7, <1>8 DEF RunOnce

(* Disposing of an event leaves the callbacks of the frames alone.         *)
LEMMA RunOnceDisposed ==
  ASSUME TypeOK, RunOnce, NEW w \in Workers, Running(w), frames' = Disposed(w),
         \A c \in Callbacks : cb_state[c] = "called" => cb_state'[c] = "called"
  PROVE  RunOnce'
<1>1. frames[w] # <<>> BY DEF Running
<1>2. /\ frames' \in [Workers -> Seq(Frame)]
      /\ \A x \in Workers \ {w} : frames'[x] = frames[x]
      /\ Len(frames'[w]) = Len(frames[w])
      /\ \A i \in DOMAIN frames[w] : frames'[w][i].cb = frames[w][i].cb
  BY <1>1, DisposedFrames
<1>3. \A x \in Workers : DOMAIN frames'[x] = DOMAIN frames[x]
  <2>1. frames'[w] \in Seq(Frame) /\ frames[w] \in Seq(Frame) BY <1>2 DEF TypeOK
  <2>2. DOMAIN frames'[w] = DOMAIN frames[w] BY <1>2, <2>1
  <2> QED BY <1>2, <2>2
<1>4. \A x \in Workers : \A i \in DOMAIN frames[x] :
        frames[x][i].cb \in Callbacks \cup {None} /\ frames'[x][i].cb = frames[x][i].cb
  <2>1. \A x \in Workers : \A i \in DOMAIN frames[x] : frames[x][i].cb \in Callbacks \cup {None}
    BY FrameAt
  <2> QED BY <1>2, <2>1
<1> QED BY <1>3, <1>4 DEF RunOnce

(* done_immediate() deletes the callback it ran, which no other frame runs,*)
(* and nothing else.                                                       *)
LEMMA ReturnFrees ==
  ASSUME TypeOK, Links, RunOnce, NEW w \in Workers, Return(w)
  PROVE  /\ RunOnce'
         /\ \A c \in Callbacks :
              cb_state'[c] = IF c = Top(w).cb THEN "freed" ELSE cb_state[c]
         /\ cb_state' \in [Callbacks -> {"new", "waiting", "called", "freed"}]
         /\ Top(w).cb # None => cb_state[Top(w).cb] = "called"
<1> DEFINE n == Len(frames[w])
<1>1. /\ frames[w] # <<>>
      /\ Free(IF Top(w).cb = None THEN {} ELSE Chain(Top(w).cb))
      /\ frames' = [frames EXCEPT ![w] = SubSeq(@, 1, Len(@) - 1)]
  BY DEF Return
<1>2. n \in Nat \ {0} /\ n \in DOMAIN frames[w] /\ Top(w) \in Frame BY <1>1, TopFrame
<1>3. Top(w).cb \in Callbacks \cup {None} BY <1>2 DEF Frame
<1>4. Top(w).cb # None => cb_state[Top(w).cb] = "called" BY <1>2 DEF RunOnce, Top
<1>5. Top(w).cb # None => next_cb[Top(w).cb] = None BY <1>3, <1>4 DEF Links, Waiting
<1>6. (IF Top(w).cb = None THEN {} ELSE Chain(Top(w).cb)) = {Top(w).cb} \ {None}
  BY <1>3, <1>5, SingleChain
<1>7. cb_state' = [c \in Callbacks |-> IF c = Top(w).cb THEN "freed" ELSE cb_state[c]]
  BY <1>1, <1>3, <1>4, <1>6, EventsAssumption DEF Free
<1>8. cb_state' \in [Callbacks -> {"new", "waiting", "called", "freed"}]
  BY <1>7 DEF TypeOK
<1>9. RunOnce'
  <2>1. /\ frames'[w] = SubSeq(frames[w], 1, n - 1)
        /\ \A x \in Workers \ {w} : frames'[x] = frames[x]
    BY <1>1 DEF TypeOK
  <2>2. /\ DOMAIN frames[w] = 1 .. n /\ DOMAIN frames'[w] = 1 .. n - 1
        /\ \A i \in 1 .. n - 1 : frames'[w][i] = frames[w][i]
    BY <1>2, <2>1 DEF TypeOK
  <2>3. \A x \in Workers : \A i \in DOMAIN frames'[x] :
          i \in DOMAIN frames[x] /\ frames'[x][i] = frames[x][i] /\ (x = w => i # n)
    BY <1>2, <2>1, <2>2
  <2>4. \A x \in Workers : \A i \in DOMAIN frames[x] : frames[x][i].cb \in Callbacks \cup {None}
    BY FrameAt
  <2>5. \A x \in Workers : \A i \in DOMAIN frames'[x] :
          frames'[x][i].cb # None => frames'[x][i].cb # Top(w).cb
    BY <1>2, <2>3 DEF RunOnce, Top
  <2>6. \A x \in Workers : \A i \in DOMAIN frames'[x] :
          frames'[x][i].cb # None => cb_state'[frames'[x][i].cb] = "called"
    BY <1>7, <2>3, <2>4, <2>5 DEF RunOnce
  <2>7. \A x, y \in Workers : \A i \in DOMAIN frames'[x] : \A j \in DOMAIN frames'[y] :
          frames'[x][i].cb # None /\ frames'[x][i].cb = frames'[y][j].cb => x = y /\ i = j
    BY <2>3 DEF RunOnce
  <2> QED BY <2>6, <2>7 DEF RunOnce
<1> QED BY <1>4, <1>7, <1>8, <1>9

-----------------------------------------------------------------------------
(* Steps *)

(* Where the callbacks and the events' stacks stay as they are.            *)
LEMMA SameLinks ==
  ASSUME TypeOK, Links, LinksApart, Found,
         UNCHANGED <<comp_cb, next_cb, target, cb_state, pushed>>,
         \A e \in Events : state[e] = "live" => state'[e] = "live"
  PROVE  Links' /\ LinksApart' /\ Found'
<1>1. Links' BY DEF Links, Waiting
<1>2. LinksApart' BY DEF LinksApart
<1>3. \A cbs : Closed(cbs)' <=> Closed(cbs) BY DEF Closed
<1>4. \A cb : Chain(cb)' = Chain(cb) BY <1>3 DEF Chain
<1>5. Found'
  <2> SUFFICES ASSUME NEW c \in Callbacks, Waiting(c)
               PROVE  state'[pushed[c]] = "live" /\ c \in Chain(comp_cb[pushed[c]])'
    BY DEF Found, Waiting
  <2>1. pushed[c] \in Events BY DEF Links
  <2>2. PICK cb : cb = comp_cb[pushed[c]] OBVIOUS
  <2>3. c \in Chain(cb) /\ cb = (comp_cb[pushed[c]])' BY <2>2 DEF Found
  <2> QED BY <1>4, <2>1, <2>2, <2>3 DEF Found, Chain, Closed
<1> QED BY <1>1, <1>2, <1>5

(* NewEvent: a new event has neither callback nor mark.                    *)
LEMMA NewEventStep ==
  ASSUME Inv, NEW e \in Events, NEW s \in Stages, NewEvent(e, s)
  PROVE  TypeOK' /\ CallbackInv'
<1> USE DEF Inv, CallbackInv
<1>1. /\ state[e] = "new" /\ state' = [state EXCEPT ![e] = "live"] /\ AddEvent(s, e)
      /\ UNCHANGED <<comp_cb, cb_flag, hops, next_cb, target, cb_state, pushed, frames>>
  BY DEF NewEvent, callbackVars
<1>2. /\ queue' \in [Stages -> Seq(Events)]
      /\ \A f \in Events, t \in Stages, i \in Nat : At(f, t, i)' => At(f, t, i) \/ f = e
  BY <1>1, QueueAppend
<1>3. TypeOK' BY <1>1, <1>2 DEF TypeOK
<1>4. \A f \in Events : state[f] # "live" \/ state'[f] = "live" BY <1>1 DEF TypeOK
<1>5. Links' /\ LinksApart' /\ Found' BY <1>1, <1>4, SameLinks
<1>6. RunOnce' BY <1>1 DEF RunOnce
<1>7. \A x \in Workers, f \in Events : Holds(x, f)' <=> Holds(x, f)
  BY <1>1 DEF Holds, Running, Top
<1>8. ~cb_flag[e] BY <1>1 DEF Marked
<1>9. \A f \in Events : f # e => state'[f] = state[f] BY <1>1 DEF TypeOK
<1>10. Marked' BY <1>1, <1>2, <1>7, <1>8, <1>9 DEF Marked
<1> QED BY <1>3, <1>5, <1>6, <1>10

(* run_callback: the mark is cleared, the top callback leaves the stack and*)
(* runs in a frame of its own.                                             *)
LEMMA RunCallbackStep ==
  ASSUME Inv, NEW w \in Workers, NEW e \in Events, comp_cb[e] # None,
         NEW stack \in Seq(Frame), Len(stack) = Len(frames[w]),
         \A i \in DOMAIN frames[w] : stack[i].cb = frames[w][i].cb,
         run_callback(w, e, stack),
         frames' \in [Workers -> Seq(Frame)], queue' \in [Stages -> Seq(Events)],
         \A x \in Workers, f \in Events : f # e /\ Holds(x, f)' => Holds(x, f),
         \A f \in Events, t \in Stages, i \in Nat :
           f # e /\ At(f, t, i)' => \E j \in Nat : At(f, t, j)
  PROVE  TypeOK' /\ CallbackInv'
<1> USE DEF Inv, CallbackInv
<1>1. PICK top \in Callbacks : top = comp_cb[e] BY DEF TypeOK
<1>2. /\ cb_flag' = [cb_flag EXCEPT ![e] = FALSE] /\ pop_callback(e)
      /\ frames' = [frames EXCEPT ![w] = Append(stack, CallbackFrame(e, top))]
      /\ UNCHANGED <<state, hops, target, pushed>>
  BY <1>1 DEF run_callback
<1>3. /\ comp_cb' = [comp_cb EXCEPT ![e] = next_cb[top]]
      /\ next_cb' = [next_cb EXCEPT ![top] = None]
      /\ cb_state' = [cb_state EXCEPT ![top] = "called"]
  BY <1>1, <1>2 DEF pop_callback, pop
<1>4. /\ comp_cb' \in [Events -> Callbacks \cup {None}]
      /\ next_cb' \in [Callbacks -> Callbacks \cup {None}]
      /\ cb_state' \in [Callbacks -> {"new", "waiting", "called", "freed"}]
      /\ cb_flag' \in [Events -> BOOLEAN]
  BY <1>2, <1>3 DEF TypeOK
<1>5. TypeOK' BY <1>2, <1>4 DEF TypeOK
<1>6. Links' /\ LinksApart' /\ Found' BY <1>2, PopLinks
<1>7. RunOnce'
  <2>1. CallbackFrame(e, top) \in Frame /\ CallbackFrame(e, top).cb = top
    BY <1>1, CallbackFrameType
  <2>2. Waiting(top) BY <1>1 DEF Links
  <2>3. cb_state'[top] = "called" /\ \A c \in Callbacks : cb_state[c] = "called" => cb_state'[c] = "called"
    BY <1>3 DEF TypeOK
  <2> QED BY <1>2, <2>1, <2>2, <2>3, RunOncePush
<1>8. \A f \in Events : /\ f = e => ~cb_flag'[f]
                        /\ f # e => cb_flag'[f] = cb_flag[f] /\ comp_cb'[f] = comp_cb[f]
  BY <1>2, <1>3 DEF TypeOK
<1>9. ASSUME NEW f \in Events, cb_flag'[f]
      PROVE  /\ \A x \in Workers : ~Holds(x, f)'
             /\ state'[f] # "new"
             /\ \A t \in Stages, i \in Nat :
                  At(f, t, i)' => comp_cb'[f] # None /\ target'[comp_cb'[f]] = t
  <2>1. f # e /\ cb_flag[f] /\ comp_cb'[f] = comp_cb[f] BY <1>8, <1>9
  <2>2. /\ \A x \in Workers : ~Holds(x, f)
        /\ state[f] # "new"
        /\ \A t \in Stages, i \in Nat : At(f, t, i) => comp_cb[f] # None /\ target[comp_cb[f]] = t
    BY <2>1 DEF Marked
  <2>3. \A t \in Stages, i \in Nat : At(f, t, i)' => \E j \in Nat : At(f, t, j) BY <2>1
  <2>4. \A x \in Workers : ~Holds(x, f)' BY <2>1, <2>2
  <2> QED BY <1>2, <2>1, <2>2, <2>3, <2>4
<1>10. Marked' BY <1>9 DEF Marked
<1> QED BY <1>5, <1>6, <1>7, <1>10

(* run_thread(): a marked event goes to done_immediate(), any other to     *)
(* handle_event().                                                         *)
LEMMA TakeEventStep ==
  ASSUME Inv, NEW w \in Workers, NEW s \in Stages, TakeEvent(w, s)
  PROVE  TypeOK' /\ CallbackInv'
<1> USE DEF Inv, CallbackInv
<1>0. PICK e : e = Head(queue[s]) OBVIOUS
<1>1. /\ frames' \in [Workers -> Seq(Frame)]
      /\ cb_flag[e] => comp_cb[e] # None
      /\ \A x \in Workers, f \in Events : Holds(x, f)' <=> IF x = w THEN f = e ELSE Holds(x, f)
  BY <1>0, TakeHolds
<1>2. /\ queue' \in [Stages -> Seq(Events)] /\ e \in Events
      /\ \A f \in Events, i \in Nat : At(f, s, i)' => At(f, s, i + 1)
      /\ \A f \in Events, t \in Stages \ {s}, i \in Nat : At(f, t, i)' => At(f, t, i)
  BY <1>0, QueueTake DEF TakeEvent
<1>3. \A f \in Events, t \in Stages, i \in Nat : At(f, t, i)' => \E j \in Nat : At(f, t, j)
  <2>1. \A i \in Nat : i + 1 \in Nat OBVIOUS
  <2> QED BY <1>2, <2>1
<1>4. frames[w] = <<>> BY DEF TakeEvent
<1> DEFINE stack == <<>>
<1>5. /\ stack \in Seq(Frame) /\ Len(stack) = Len(frames[w])
      /\ \A i \in DOMAIN frames[w] : stack[i].cb = frames[w][i].cb
  BY <1>4
<1>6. CASE cb_flag[e]
  <2>1. run_callback(w, e, stack) BY <1>0, <1>6 DEF TakeEvent
  <2> HIDE DEF stack
  <2> QED BY <1>1, <1>2, <1>3, <1>5, <1>6, <2>1, RunCallbackStep
<1>7. CASE ~cb_flag[e]
  <2> DEFINE fr == [stage |-> s, event |-> e, cb |-> None, below |-> {}, disposed |-> FALSE]
  <2>1. /\ frames' = [frames EXCEPT ![w] = Append(stack, fr)]
        /\ UNCHANGED <<state, comp_cb, cb_flag, hops, next_cb, target, cb_state, pushed>>
    BY <1>0, <1>4, <1>7 DEF TakeEvent, Push, TypeOK, eventVars, callbackVars
  <2>2. fr \in Frame /\ fr.cb = None BY <1>2 DEF Frame
  <2>3. TypeOK' BY <1>1, <1>2, <2>1 DEF TypeOK
  <2>4. Links' /\ LinksApart' /\ Found' BY <2>1, SameLinks
  <2> HIDE DEF stack, fr
  <2>5. RunOnce' BY <1>5, <2>1, <2>2, RunOncePush
  <2>6. Marked' BY <1>1, <1>3, <1>7, <2>1 DEF Marked
  <2> QED BY <2>3, <2>4, <2>5, <2>6
<1> QED BY <1>6, <1>7

(* The event a handler runs for is live and not marked.                    *)
LEMMA HeldEvent ==
  ASSUME Inv, NEW w \in Workers, Running(w)
  PROVE  /\ frames[w] # <<>> /\ Top(w) \in Frame /\ Top(w).event \in Events
         /\ Holds(w, Top(w).event)
         /\ state[Top(w).event] = "live" /\ ~cb_flag[Top(w).event]
<1>1. frames[w] # <<>> BY DEF Running
<1>2. Top(w) \in Frame BY <1>1, TopFrame DEF Inv
<1>3. Top(w).event \in Events BY <1>2 DEF Frame
<1>4. Holds(w, Top(w).event) BY DEF Holds
<1> QED BY <1>1, <1>2, <1>3, <1>4 DEF Inv, OwnerInv, OwnedIsLive, CallbackInv, Marked

(* Forward: an event passed on is not marked, so it goes to handle_event().*)
LEMMA ForwardStep ==
  ASSUME Inv, NEW w \in Workers, NEW s \in Stages, Forward(w, s)
  PROVE  TypeOK' /\ CallbackInv'
<1> USE DEF Inv, CallbackInv
<1>0. PICK e : e = Top(w).event OBVIOUS
<1>1. /\ Running(w) /\ hops[e] < MaxHops /\ hops' = [hops EXCEPT ![e] = @ + 1]
      /\ AddEvent(s, e) /\ frames' = Disposed(w)
      /\ UNCHANGED <<state, comp_cb, cb_flag, next_cb, target, cb_state, pushed>>
  BY <1>0 DEF Forward, callbackVars
<1>2. e \in Events /\ ~cb_flag[e] /\ frames[w] # <<>> BY <1>0, <1>1, HeldEvent
<1>3. /\ queue' \in [Stages -> Seq(Events)]
      /\ \A f \in Events, t \in Stages, i \in Nat : At(f, t, i)' => At(f, t, i) \/ f = e
  BY <1>1, <1>2, QueueAppend
<1>4. frames' \in [Workers -> Seq(Frame)] BY <1>1, <1>2, DisposedFrames
<1>5. hops' \in [Events -> 0 .. MaxHops] BY <1>1, <1>2, EventsAssumption DEF TypeOK
<1>6. TypeOK' BY <1>1, <1>3, <1>4, <1>5 DEF TypeOK
<1>7. Links' /\ LinksApart' /\ Found' BY <1>1, SameLinks
<1>8. RunOnce' BY <1>1, RunOnceDisposed
<1>9. \A x \in Workers, f \in Events : Holds(x, f)' => Holds(x, f)
  BY <1>1, HoldsDisposed DEF OwnerInv
<1>10. Marked' BY <1>1, <1>2, <1>3, <1>9 DEF Marked
<1> QED BY <1>6, <1>7, <1>8, <1>10

(* push_callback(): only the handler that holds an event pushes on it.     *)
LEMMA PushCallbackStep ==
  ASSUME Inv, NEW w \in Workers, NEW cb \in Callbacks, PushCallback(w, cb)
  PROVE  TypeOK' /\ CallbackInv'
<1> USE DEF Inv, CallbackInv
<1>0. PICK e : e = Top(w).event OBVIOUS
<1>s. PICK s : s = Top(w).stage OBVIOUS
<1>1. /\ Running(w) /\ cb_state[cb] = "new"
      /\ next_cb' = [next_cb EXCEPT ![cb] = comp_cb[e]]
      /\ comp_cb' = [comp_cb EXCEPT ![e] = cb]
      /\ pushed' = [pushed EXCEPT ![cb] = e]
      /\ target' = [target EXCEPT ![cb] = s]
      /\ cb_state' = [cb_state EXCEPT ![cb] = "waiting"]
      /\ UNCHANGED <<state, cb_flag, hops, queue, frames>>
  BY <1>0, <1>s DEF PushCallback, push
<1>2. e \in Events /\ s \in Stages /\ ~cb_flag[e] /\ state[e] = "live"
  BY <1>0, <1>s, <1>1, HeldEvent DEF Frame
<1>3. TypeOK'
  <2>1. comp_cb' \in [Events -> Callbacks \cup {None}] BY <1>1 DEF TypeOK
  <2>2. next_cb' \in [Callbacks -> Callbacks \cup {None}] BY <1>1, <1>2 DEF TypeOK
  <2>3. pushed' \in [Callbacks -> Events \cup {None}] BY <1>1, <1>2 DEF TypeOK
  <2>4. target' \in [Callbacks -> Stages \cup {None}] BY <1>1, <1>2 DEF TypeOK
  <2>5. cb_state' \in [Callbacks -> {"new", "waiting", "called", "freed"}] BY <1>1 DEF TypeOK
  <2> QED BY <1>1, <2>1, <2>2, <2>3, <2>4, <2>5 DEF TypeOK
<1>4. Links' /\ LinksApart' /\ Found' BY <1>1, <1>2, PushLinks
<1>5. RunOnce'
  <2>1. \A c \in Callbacks : cb_state[c] = "called" => cb_state'[c] = "called"
    BY <1>1 DEF TypeOK
  <2>2. \A x \in Workers : \A i \in DOMAIN frames[x] : frames[x][i].cb \in Callbacks \cup {None}
    BY FrameAt
  <2> QED BY <1>1, <2>1, <2>2 DEF RunOnce
<1>6. \A x \in Workers, f \in Events : Holds(x, f)' <=> Holds(x, f)
  BY <1>1 DEF Holds, Running, Top
<1>7. \A f \in Events, t \in Stages, i \in Nat : At(f, t, i)' <=> At(f, t, i) BY <1>1 DEF At
<1>8. \A f \in Events : f # e => comp_cb'[f] = comp_cb[f] BY <1>1 DEF TypeOK
<1>9. \A f \in Events : comp_cb[f] # None => target'[comp_cb[f]] = target[comp_cb[f]]
  <2>1. \A f \in Events : comp_cb[f] # cb /\ comp_cb[f] \in Callbacks \cup {None}
    BY <1>1, EventsAssumption DEF Links, Waiting, TypeOK
  <2> QED BY <1>1, <2>1 DEF TypeOK
<1>10. Marked' BY <1>1, <1>2, <1>6, <1>7, <1>8, <1>9 DEF Marked
<1> QED BY <1>3, <1>4, <1>5, <1>10

(* done() and done_immediate(): the event goes to the stage of its top     *)
(* callback, the callback runs in place, or the event is deleted with an   *)
(* empty stack.                                                            *)
LEMMA DisposeStep ==
  ASSUME Inv, NEW w \in Workers, Dispose(w)
  PROVE  TypeOK' /\ CallbackInv'
<1> USE DEF Inv, CallbackInv
<1>1. PICK e \in Events : Deletes(w, e) \/ Reschedules(w, e) \/ CallsBack(w, e)
  BY DisposeCases
<1>2. Running(w) /\ Holds(w, e) /\ frames[w] # <<>>
  BY <1>1 DEF Deletes, Reschedules, CallsBack, Holds, Running
<1>3. state[e] = "live" /\ ~cb_flag[e]
  BY <1>2 DEF OwnerInv, OwnedIsLive, Marked
<1>4. Disposed(w) \in [Workers -> Seq(Frame)] BY <1>2, DisposedFrames
<1>5. CASE Deletes(w, e)
  <2>1. /\ comp_cb[e] = None /\ frames' = Disposed(w) /\ DeleteEvent(e)
    BY <1>5 DEF Deletes
  <2>2. Chain(comp_cb[e]) = {} BY <2>1, EmptyChain
  <2>3. comp_cb' = comp_cb BY <2>1 DEF DeleteEvent, TypeOK
  <2>4. cb_state' = cb_state BY <2>1, <2>2 DEF DeleteEvent, Free, TypeOK
  <2>5. next_cb' = next_cb BY <2>1, <2>2 DEF DeleteEvent, TypeOK
  <2>6. /\ state' = [state EXCEPT ![e] = "deleted"]
        /\ UNCHANGED <<comp_cb, cb_flag, hops, next_cb, target, cb_state, pushed, queue>>
    BY <2>1, <2>3, <2>4, <2>5 DEF DeleteEvent
  <2>7. TypeOK' BY <1>4, <2>1, <2>6 DEF TypeOK
  <2>8. Links' BY <2>6 DEF Links, Waiting
  <2>9. LinksApart' BY <2>6 DEF LinksApart
  <2>10. Found'
    <3>1. \A c \in Callbacks : Waiting(c) => pushed[c] # e BY <2>2 DEF Found
    <3>2. ASSUME NEW c \in Callbacks, Waiting(c)
          PROVE  state'[pushed[c]] = "live" /\ c \in Chain(comp_cb[pushed[c]])'
      <4>1. state'[pushed[c]] = "live" BY <2>6, <3>1, <3>2 DEF Found, Links, TypeOK
      <4>2. c \in Chain(comp_cb[pushed[c]]) BY <3>2 DEF Found
      <4>3. c \in Chain(comp_cb[pushed[c]])' BY <2>6, <4>2 DEF Chain, Closed
      <4> QED BY <4>1, <4>3
    <3> QED BY <2>6, <3>2 DEF Found, Waiting
  <2>11. RunOnce' BY <1>2, <2>1, <2>6, RunOnceDisposed
  <2>12. \A x \in Workers, f \in Events : Holds(x, f)' => Holds(x, f)
    BY <1>2, <2>1, HoldsDisposed DEF OwnerInv
  <2>13. \A f \in Events, t \in Stages, i \in Nat : At(f, t, i)' <=> At(f, t, i) BY <2>6 DEF At
  <2>14. \A f \in Events : f # e => state'[f] = state[f] BY <2>6 DEF TypeOK
  <2>15. Marked' BY <1>3, <2>6, <2>12, <2>13, <2>14 DEF Marked
  <2> QED BY <2>7, <2>8, <2>9, <2>10, <2>11, <2>15
<1>6. CASE Reschedules(w, e)
  <2>1. PICK s : s = target[comp_cb[e]] OBVIOUS
  <2>2. /\ comp_cb[e] # None /\ frames' = Disposed(w)
        /\ cb_flag' = [cb_flag EXCEPT ![e] = TRUE] /\ AddEvent(s, e)
        /\ UNCHANGED <<state, comp_cb, hops, next_cb, target, cb_state, pushed>>
    BY <1>6, <2>1 DEF Reschedules, event_reschedule, reschedule, callbackVars
  <2>3. s \in Stages BY <2>1, <2>2 DEF TypeOK, Links
  <2>4. /\ queue' \in [Stages -> Seq(Events)]
        /\ \A f \in Events, t \in Stages, i \in Nat :
             At(f, t, i)' => At(f, t, i) \/ (f = e /\ t = s)
    BY <2>2, <2>3, QueueAppend
  <2>5. TypeOK' BY <1>4, <2>2, <2>4 DEF TypeOK
  <2>6. Links' /\ LinksApart' /\ Found' BY <2>2, SameLinks
  <2>7. RunOnce' BY <1>2, <2>2, RunOnceDisposed
  <2>8. \A x \in Workers, f \in Events : Holds(x, f)' => Holds(x, f) /\ x # w
    BY <1>2, <2>2, HoldsDisposed DEF OwnerInv
  <2>9. \A x \in Workers : ~Holds(x, e)' BY <1>2, <2>8 DEF OwnerInv, OneHolder
  <2>10. \A t \in Stages, i \in Nat : ~At(e, t, i) BY <1>2 DEF OwnerInv, HeldOrQueued
  <2>11. \A f \in Events : f # e => cb_flag'[f] = cb_flag[f] BY <2>2 DEF TypeOK
  <2>12. Marked' BY <1>3, <2>1, <2>2, <2>4, <2>8, <2>9, <2>10, <2>11 DEF Marked
  <2> QED BY <2>5, <2>6, <2>7, <2>12
<1>7. CASE CallsBack(w, e)
  <2> DEFINE stack == Disposed(w)[w]
  <2>1. /\ stack \in Seq(Frame) /\ Len(stack) = Len(frames[w])
        /\ \A i \in DOMAIN frames[w] : stack[i].cb = frames[w][i].cb
    BY <1>2, <1>4, DisposedFrames
  <2>2. comp_cb[e] # None /\ run_callback(w, e, stack) /\ UNCHANGED queue
    BY <1>7 DEF CallsBack
  <2>3. /\ frames' \in [Workers -> Seq(Frame)]
        /\ \A x \in Workers, f \in Events : Holds(x, f)' <=> Holds(x, f)
    BY <1>7, CallsBackHolds
  <2>4. queue' \in [Stages -> Seq(Events)] BY <2>2 DEF TypeOK
  <2>5. \A f \in Events, t \in Stages, i \in Nat : At(f, t, i)' <=> At(f, t, i) BY <2>2 DEF At
  <2> HIDE DEF stack
  <2> QED BY <2>1, <2>2, <2>3, <2>4, <2>5, RunCallbackStep
<1> QED BY <1>1, <1>5, <1>6, <1>7

(* The handler returns: the callback that ran is freed once.               *)
LEMMA ReturnStep ==
  ASSUME Inv, NEW w \in Workers, Return(w)
  PROVE  TypeOK' /\ CallbackInv'
<1> USE DEF Inv, CallbackInv
<1>1. /\ frames[w] # <<>> /\ Top(w).disposed
      /\ frames' = [frames EXCEPT ![w] = SubSeq(@, 1, Len(@) - 1)]
      /\ UNCHANGED <<state, comp_cb, cb_flag, hops, next_cb, target, pushed, queue>>
  BY DEF Return, eventVars
<1>2. PICK cb : cb = Top(w).cb OBVIOUS
<1>3. /\ RunOnce'
      /\ \A c \in Callbacks : cb_state'[c] = IF c = cb THEN "freed" ELSE cb_state[c]
      /\ cb_state' \in [Callbacks -> {"new", "waiting", "called", "freed"}]
      /\ cb # None => cb_state[cb] = "called"
  BY <1>2, ReturnFrees
<1>4. \A c \in Callbacks : Waiting(c)' <=> Waiting(c) BY <1>3, EventsAssumption DEF Waiting
<1>5. /\ frames' \in [Workers -> Seq(Frame)]
      /\ \A x \in Workers, f \in Events : Holds(x, f)' <=> Holds(x, f)
  BY <1>1, HoldsPop DEF OwnerInv
<1>6. TypeOK' BY <1>1, <1>3, <1>5 DEF TypeOK
<1>7. Links' BY <1>1, <1>4 DEF Links, TypeOK
<1>8. LinksApart' BY <1>1 DEF LinksApart
<1>9. Found'
  <2>1. ASSUME NEW c \in Callbacks, Waiting(c)'
        PROVE  state'[pushed'[c]] = "live" /\ c \in Chain(comp_cb[pushed[c]])'
    <3>1. state[pushed[c]] = "live" /\ c \in Chain(comp_cb[pushed[c]])
      BY <1>4, <2>1 DEF Found
    <3>2. c \in Chain(comp_cb[pushed[c]])' BY <1>1, <3>1 DEF Chain, Closed
    <3> QED BY <1>1, <3>1, <3>2
  <2> QED BY <2>1 DEF Found
<1>10. \A f \in Events, t \in Stages, i \in Nat : At(f, t, i)' <=> At(f, t, i) BY <1>1 DEF At
<1>11. Marked' BY <1>1, <1>5, <1>10 DEF Marked
<1> QED BY <1>3, <1>6, <1>7, <1>8, <1>9, <1>11

-----------------------------------------------------------------------------
(* Theorems *)

(* Before the first event nothing is held, queued or pushed.               *)
LEMMA InitInv == Init => Inv
<1> SUFFICES ASSUME Init PROVE Inv OBVIOUS
<1> USE EventsAssumption DEF Init
<1>1. TypeOK BY DEF TypeOK
<1>2. (\A w \in Workers, e \in Events : ~Holds(w, e)) /\ \A w \in Workers : frames[w] = <<>>
  BY DEF Holds, Running
<1>3. \A e \in Events, s \in Stages, i \in Nat : ~At(e, s, i) BY DEF At
<1>4. CallersDisposed BY DEF CallersDisposed
<1>5. OneHolder /\ OnePlace /\ HeldOrQueued
  BY <1>2, <1>3 DEF OneHolder, OnePlace, HeldOrQueued
<1>6. OwnedIsLive BY <1>2, <1>3 DEF OwnedIsLive
<1>7. Links /\ LinksApart /\ Found BY DEF Links, LinksApart, Found, Waiting
<1>8. RunOnce BY <1>2 DEF RunOnce
<1>9. Marked BY DEF Marked
<1> QED BY <1>1, <1>4, <1>5, <1>6, <1>7, <1>8, <1>9 DEF Inv, OwnerInv, CallbackInv

(* Every step of a handler or a worker keeps the invariant.                *)
LEMMA InvStep == Inv /\ [Next]_vars => Inv'
<1> SUFFICES ASSUME Inv, [Next]_vars PROVE Inv' OBVIOUS
<1>1. OwnerInv' BY OwnerStep
<1>2. CASE UNCHANGED vars
  <2>1. UNCHANGED <<state, comp_cb, cb_flag, hops, next_cb, target, cb_state, pushed, queue, frames>>
    BY <1>2 DEF vars, eventVars, callbackVars
  <2>2. TypeOK' BY <2>1 DEF Inv, TypeOK
  <2>3. Links' /\ LinksApart' /\ Found' BY <2>1, SameLinks DEF Inv, CallbackInv
  <2>4. RunOnce' BY <2>1 DEF Inv, CallbackInv, RunOnce
  <2>5. Marked' BY <2>1 DEF Inv, CallbackInv, Marked, Holds, Running, Top, At
  <2> QED BY <1>1, <2>2, <2>3, <2>4, <2>5 DEF Inv, CallbackInv
<1> QED
  BY <1>1, <1>2, NewEventStep, TakeEventStep, ForwardStep, PushCallbackStep, DisposeStep,
     ReturnStep DEF Next, Inv

(* One owner in the sense of handlers and places is one in numbers.        *)
LEMMA OwnersCounted == Inv => OneOwner
<1> SUFFICES ASSUME Inv, NEW e \in Events
             PROVE  Cardinality(Holders(e)) + Cardinality(Places(e)) =
                      IF state[e] = "live" THEN 1 ELSE 0
  BY DEF OneOwner
<1> USE DEF Inv, OwnerInv
<1>1. Holders(e) = {w \in Workers : Holds(w, e)} BY DEF Holders, Holds
<1>2. \A x : x \in Places(e) <=> \E s \in Stages : \E i \in Nat : At(e, s, i) /\ x = <<s, i>>
  <2>1. \A s \in Stages : \A i \in DOMAIN queue[s] : i \in Nat BY DEF TypeOK
  <2> QED BY <2>1 DEF Places, At
<1>3. Cardinality({}) = 0 BY FS_EmptySet
<1>4. CASE \E w \in Workers : Holds(w, e)
  <2>1. PICK w \in Workers : Holds(w, e) BY <1>4
  <2>2. Holders(e) = {w} BY <1>1, <2>1 DEF OneHolder
  <2>3. Places(e) = {} BY <1>2, <2>1 DEF HeldOrQueued
  <2>4. state[e] = "live" BY <2>1 DEF OwnedIsLive
  <2>5. Cardinality({w}) = 1 BY FS_Singleton
  <2> QED BY <1>3, <2>2, <2>3, <2>4, <2>5
<1>5. CASE \E s \in Stages : \E i \in Nat : At(e, s, i)
  <2>1. PICK s \in Stages, i \in Nat : At(e, s, i) BY <1>5
  <2>2. Holders(e) = {} BY <1>1, <2>1 DEF HeldOrQueued
  <2>3. Places(e) = {<<s, i>>} BY <1>2, <2>1 DEF OnePlace
  <2>4. state[e] = "live" BY <2>1 DEF OwnedIsLive
  <2>5. Cardinality({<<s, i>>}) = 1 BY FS_Singleton
  <2> QED BY <1>3, <2>2, <2>3, <2>4, <2>5
<1>6. CASE ~(\E w \in Workers : Holds(w, e)) /\ ~(\E s \in Stages : \E i \in Nat : At(e, s, i))
  <2>1. Holders(e) = {} /\ Places(e) = {} BY <1>1, <1>2, <1>6
  <2>2. state[e] # "live" BY <1>6 DEF OwnedIsLive
  <2> QED BY <1>3, <2>1, <2>2
<1> QED BY <1>4, <1>5, <1>6

(* The links and the frames say what CallbacksIntact says of whole stacks. *)
LEMMA StacksIntact == Inv => CallbacksIntact
<1> SUFFICES ASSUME Inv PROVE CallbacksIntact OBVIOUS
<1> USE DEF Inv, CallbackInv
<1>1. \A e \in Events : \A c \in Chain(comp_cb[e]) : cb_state[c] = "waiting" /\ pushed[c] = e
  BY StackWaits DEF Waiting
<1>2. \A c \in Callbacks : cb_state[c] \notin {"freed_twice", "dropped"} BY DEF TypeOK
<1>3. \A c \in Callbacks : cb_state[c] = "waiting" =>
        state[pushed[c]] = "live" /\ c \in Chain(comp_cb[pushed[c]])
  BY DEF Found, Waiting
<1> QED BY <1>1, <1>2, <1>3 DEF CallbacksIntact, RunOnce

(* However handlers mix done(), done_immediate() and forwarding, exactly   *)
(* one handler or queue entry refers to a live event, and none to a deleted*)
(* one.                                                                    *)
THEOREM EventHasOneOwner == Spec => []OneOwner
BY InitInv, InvStep, OwnersCounted, PTL DEF Spec

(* pop_callback(), push_callback() and the destructors leave every stack   *)
(* intact: no callback is dropped, freed twice or freed before its call.   *)
THEOREM CallbacksSafe == Spec => []CallbacksIntact
BY InitInv, InvStep, StacksIntact, PTL DEF Spec

(* done() marks the event and queues it at the stage of its top callback;  *)
(* both are still true when a worker of that stage takes it up.            *)
THEOREM CallbackRunsOnItsStage == Spec => []CalledBackOnItsStage
<1>1. Inv => CalledBackOnItsStage
  <2> SUFFICES ASSUME Inv, NEW s \in Stages, NEW i \in DOMAIN queue[s], cb_flag[queue[s][i]]
               PROVE  LET e == queue[s][i] IN comp_cb[e] # None /\ target[comp_cb[e]] = s
    BY DEF CalledBackOnItsStage
  <2>1. i \in Nat /\ queue[s][i] \in Events BY DEF Inv, TypeOK
  <2>2. At(queue[s][i], s, i) BY DEF At
  <2> QED BY <2>1, <2>2 DEF Inv, CallbackInv, Marked
<1> QED BY <1>1, InitInv, InvStep, PTL DEF Spec

=============================================================================
