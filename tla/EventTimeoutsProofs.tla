------------------------- MODULE EventTimeoutsProofs -------------------------
(***************************************************************************)
(* A TimeoutInfo lives exactly as long as it is used, and a deadline that  *)
(* has passed has passed for good, for any number of threads, events and   *)
(* deadlines.  The inductive invariant says which events a TimeoutInfo     *)
(* counts, and where a thread that is about to attach to one has it from.  *)
(***************************************************************************)
EXTENDS EventTimeouts, FiniteSetTheorems, TLAPS

\* A thread in the middle of a call works on an event of its own.
ActsOnOwn ==
  \A t \in Threads :
    pc[t] # Ready => pc[t].event \in Events /\ owner[pc[t].event] = t

NoEventNoInfo == \A e \in Events : owner[e] = None => tm_info_[e] = None

\* The TimeoutInfo that thread t is going to attach an event to.
Target(t) == IF pc[t].step = "detach" THEN pc[t].tmi
             ELSE IF pc[t].step = "attach" THEN tm_info_[pc[t].event] ELSE None

\* It is held by another event of the thread, or is new and nobody else's.
Sourced(t) ==
  \/ \E f \in Events : f # pc[t].event /\ owner[f] = t /\ tm_info_[f] = Target(t)
  \/ /\ \A f \in Events : tm_info_[f] = Target(t) => pc[t].step = "attach" /\ f = pc[t].event
     /\ \A u \in Threads : u # t => ~Handed(u, Target(t))

SourcesKept == \A t \in Threads : Target(t) # None => Sourced(t)

AttachHasTarget ==
  \A t \in Threads : pc[t].step = "attach" => tm_info_[pc[t].event] \in Infos

ToldIsKept == \A i \in told : is_timed_out_[i]

Inv ==
  /\ TypeOK /\ RefCountExact /\ ActsOnOwn /\ NoEventNoInfo /\ SourcesKept
  /\ AttachHasTarget /\ LiveWhileUsed /\ ToldIsKept

-----------------------------------------------------------------------------
\* The forms a thread's step can have.
LEMMA StepForms ==
  ASSUME NEW p \in Steps
  PROVE  /\ p = Ready => p.step = "ready" /\ p.event = None /\ p.tmi = None
         /\ p # Ready => /\ p.step \in {"detach", "attach", "ask", "drop"}
                         /\ p.event \in Events /\ p.tmi \in Infos \cup {None}
BY TimeoutAssumption DEF Steps, Ready, Step

\* What a thread may become is a step.
LEMMA StepTypes ==
  /\ Ready \in Steps
  /\ \A s \in {"detach", "attach", "ask", "drop"}, e \in Events, i \in Infos \cup {None} :
       /\ Step(s, e, i) \in Steps /\ Step(s, e, i) # Ready
       /\ Step(s, e, i).step = s /\ Step(s, e, i).event = e /\ Step(s, e, i).tmi = i
BY TimeoutAssumption DEF Steps, Ready, Step

\* The events that a TimeoutInfo counts are finitely many.
LEMMA HoldersFinite ==
  ASSUME NEW i
  PROVE  IsFiniteSet(Holders(i)) /\ Cardinality(Holders(i)) \in Nat
<1>1. Holders(i) \in SUBSET Events
  BY DEF Holders
<1> QED
  BY <1>1, FS_Subset, FS_CardinalityType, TimeoutAssumption

\* No other thread attaches an event of thread t.
LEMMA AttachedByOwner ==
  ASSUME TypeOK, ActsOnOwn, NEW t \in Threads, NEW e \in Events, owner[e] = t
  PROVE  Attaching(e) <=> pc[t].step = "attach" /\ pc[t].event = e
BY StepForms DEF TypeOK, ActsOnOwn, Attaching

\* The count is 1 exactly when the event is the only holder.
LEMMA SoleHolder ==
  ASSUME RefCountExact, NEW i \in Infos, NEW e \in Holders(i)
  PROVE  /\ ref_cnt_[i] > 0
         /\ ref_cnt_[i] = 1 <=> \A f \in Holders(i) : f = e
<1>1. ref_cnt_[i] = Cardinality(Holders(i))
  BY DEF RefCountExact
<1>2. Cardinality(Holders(i)) # 0
  BY HoldersFinite, FS_EmptySet
<1>3. Cardinality(Holders(i)) = 1 <=> \E x : Holders(i) = {x}
  BY HoldersFinite, FS_Singleton
<1>4. (\E x : Holders(i) = {x}) <=> \A f \in Holders(i) : f = e
  OBVIOUS
<1>5. Cardinality(Holders(i)) \in Nat
  BY HoldersFinite
<1>6. ref_cnt_[i] > 0
  BY <1>1, <1>2, <1>5
<1> QED
  BY <1>1, <1>3, <1>4, <1>6

\* A TimeoutInfo that a thread is going to attach to has a holder among the
\* thread's other events, or is nobody else's.
LEMMA SourceHolds ==
  ASSUME TypeOK, ActsOnOwn, NEW t \in Threads, NEW f \in Events,
         f # pc[t].event, owner[f] = t
  PROVE  ~Attaching(f)
BY AttachedByOwner

-----------------------------------------------------------------------------
LEMMA InitInv == Init => Inv
<1> SUFFICES ASSUME Init PROVE Inv
  OBVIOUS
<1> USE TimeoutAssumption DEF Init
<1>1. TypeOK
  BY StepTypes DEF TypeOK, Time
<1>2. \A t \in Threads : pc[t] = Ready /\ pc[t].step = "ready"
  BY StepForms, StepTypes
<1>3. \A i \in Infos : Holders(i) = {}
  BY DEF Holders
<1>4. RefCountExact
  BY <1>3, FS_EmptySet DEF RefCountExact
<1>5. ActsOnOwn /\ NoEventNoInfo /\ SourcesKept /\ AttachHasTarget /\ ToldIsKept
  BY <1>2 DEF ActsOnOwn, NoEventNoInfo, SourcesKept, Target, AttachHasTarget, ToldIsKept
<1>6. LiveWhileUsed
  BY <1>2 DEF LiveWhileUsed, Handed
<1> QED
  BY <1>1, <1>4, <1>5, <1>6 DEF Inv

\* A step of the clock.
LEMMA ClockInv ==
  ASSUME Inv, NEW d \in Time, SetClock(d)
  PROVE  Inv'
<1> USE DEF Inv, SetClock, infoVars
<1>1. TypeOK'
  BY DEF TypeOK
<1>2. \A i : Holders(i)' = Holders(i)
  BY DEF Holders, Attaching
<1>3. RefCountExact'
  BY <1>2 DEF RefCountExact
<1>4. (ActsOnOwn /\ NoEventNoInfo /\ AttachHasTarget /\ ToldIsKept)'
  BY DEF ActsOnOwn, NoEventNoInfo, AttachHasTarget, ToldIsKept
<1>5. SourcesKept'
  BY DEF SourcesKept, Sourced, Target, Handed
<1>6. LiveWhileUsed'
  BY DEF LiveWhileUsed, Handed
<1> QED
  BY <1>1, <1>3, <1>4, <1>5, <1>6

\* What holds when a step changes neither the references nor who attaches.
LEMMA SameHolders ==
  ASSUME RefCountExact, UNCHANGED <<tm_info_, ref_cnt_>>,
         \A e \in Events : Attaching(e)' <=> Attaching(e)
  PROVE  RefCountExact'
<1>1. \A i : Holders(i)' = Holders(i)
  BY DEF Holders
<1> QED
  BY <1>1 DEF RefCountExact

LEMMA NewEventInv ==
  ASSUME Inv, NEW t \in Threads, NEW e \in Events, NewEvent(t, e)
  PROVE  Inv'
<1> USE DEF Inv, NewEvent, infoVars
<1>0. pc[t].step = "ready"
  BY StepForms DEF TypeOK
<1>1. TypeOK'
  BY DEF TypeOK
<1>2. RefCountExact'
  BY SameHolders DEF Attaching
<1>3. (ActsOnOwn /\ NoEventNoInfo /\ AttachHasTarget /\ ToldIsKept)'
  BY TimeoutAssumption DEF TypeOK, ActsOnOwn, NoEventNoInfo, AttachHasTarget, ToldIsKept
<1>4. SourcesKept'
  BY TimeoutAssumption DEF TypeOK, SourcesKept, Sourced, Target, Handed
<1>5. LiveWhileUsed'
  BY DEF LiveWhileUsed, Handed
<1> QED
  BY <1>1, <1>2, <1>3, <1>4, <1>5

LEMMA SetDeadlineInv ==
  ASSUME Inv, NEW t \in Threads, NEW e \in Events, NEW i \in Infos, NEW d \in Time,
         set_deadline(t, e, i, d)
  PROVE  Inv'
<1> USE DEF Inv, set_deadline, Become
<1>0. /\ pc' = [pc EXCEPT ![t] = Step("detach", e, i)]
      /\ pc'[t].step = "detach" /\ pc'[t].event = e /\ pc'[t].tmi = i /\ pc'[t] \in Steps
      /\ pc[t].step = "ready" /\ \A u \in Threads : u # t => pc'[u] = pc[u]
  BY StepForms, StepTypes DEF TypeOK
<1>1. TypeOK'
  BY <1>0 DEF TypeOK
<1>2. RefCountExact'
  BY <1>0, SameHolders DEF Attaching
<1>3. (ActsOnOwn /\ NoEventNoInfo /\ AttachHasTarget /\ ToldIsKept)'
  BY <1>0, StepForms DEF TypeOK, ActsOnOwn, NoEventNoInfo, AttachHasTarget, ToldIsKept
<1>4. /\ \A f \in Events : tm_info_[f] # i
      /\ \A u \in Threads : ~Handed(u, i)
  BY DEF LiveWhileUsed
<1>5. ASSUME NEW u \in Threads, Target(u)' # None
      PROVE  Sourced(u)'
  <2>1. CASE u = t
    BY <2>1, <1>0, <1>4 DEF Sourced, Target, Handed
  <2>2. CASE u # t
    <3>1. Target(u)' = Target(u) /\ Sourced(u)
      BY <2>2, <1>0, <1>5 DEF SourcesKept, Target
    <3>2. Target(u) # i
      BY <2>2, <1>0, <1>4, <1>5, <3>1, StepForms DEF Target, Handed, TypeOK, ActsOnOwn
    <3> QED
      BY <2>2, <1>0, <3>1, <3>2 DEF Sourced, Handed
  <2> QED
    BY <2>1, <2>2
<1>6. SourcesKept'
  BY <1>5 DEF SourcesKept
<1>7. LiveWhileUsed'
  BY <1>0, <1>4 DEF LiveWhileUsed, Handed, TypeOK
<1> QED
  BY <1>1, <1>2, <1>3, <1>6, <1>7

LEMMA ShareInv ==
  ASSUME Inv, NEW t \in Threads, NEW e \in Events, NEW f \in Events, share(t, e, f)
  PROVE  Inv'
<1> USE DEF Inv, share, Become, infoVars
<1>0. /\ pc' = [pc EXCEPT ![t] = Step("detach", e, tm_info_[f])]
      /\ pc'[t].step = "detach" /\ pc'[t].event = e /\ pc'[t].tmi = tm_info_[f]
      /\ pc'[t] \in Steps
      /\ pc[t].step = "ready" /\ \A u \in Threads : u # t => pc'[u] = pc[u]
  BY StepForms, StepTypes DEF TypeOK
<1>1. TypeOK'
  BY <1>0 DEF TypeOK
<1>2. RefCountExact'
  BY <1>0, SameHolders DEF Attaching
<1>3. (ActsOnOwn /\ NoEventNoInfo /\ AttachHasTarget /\ ToldIsKept)'
  BY <1>0, StepForms DEF TypeOK, ActsOnOwn, NoEventNoInfo, AttachHasTarget, ToldIsKept
<1>5. ASSUME NEW u \in Threads, Target(u)' # None
      PROVE  Sourced(u)'
  <2>1. CASE u = t
    BY <2>1, <1>0 DEF Sourced, Target
  <2>2. CASE u # t
    <3>1. Target(u)' = Target(u) /\ Sourced(u)
      BY <2>2, <1>0, <1>5 DEF SourcesKept, Target
    <3>2. CASE tm_info_[f] = Target(u) /\ ~\E g \in Events : g # pc[u].event /\ owner[g] = u /\ tm_info_[g] = Target(u)
      <4>1. pc[u].step = "attach" /\ f = pc[u].event
        BY <3>1, <3>2 DEF Sourced
      <4>2. owner[f] = u
        BY <4>1, StepForms DEF TypeOK, ActsOnOwn
      <4> QED
        BY <4>2, <2>2
    <3> QED
      BY <2>2, <1>0, <3>1, <3>2 DEF Sourced, Handed
  <2> QED
    BY <2>1, <2>2
<1>6. SourcesKept'
  BY <1>5 DEF SourcesKept
<1>7. LiveWhileUsed'
  BY <1>0 DEF LiveWhileUsed, Handed, TypeOK
<1> QED
  BY <1>1, <1>2, <1>3, <1>6, <1>7

LEMMA TakeInv ==
  ASSUME Inv, NEW t \in Threads, NEW e \in Events, Take(t, e)
  PROVE  Inv'
<1> USE DEF Inv, Take, Become, infoVars
<1>0. /\ pc'[t].step = "ask" /\ pc'[t].event = e /\ pc'[t] \in Steps
      /\ pc' = [pc EXCEPT ![t] = Step("ask", e, None)]
      /\ pc[t].step = "ready" /\ \A u \in Threads : u # t => pc'[u] = pc[u]
  BY StepForms, StepTypes DEF TypeOK
<1>1. TypeOK'
  BY <1>0 DEF TypeOK
<1>2. RefCountExact'
  BY <1>0, SameHolders DEF Attaching
<1>3. (ActsOnOwn /\ NoEventNoInfo /\ AttachHasTarget /\ ToldIsKept)'
  BY <1>0, TimeoutAssumption, StepForms
     DEF TypeOK, ActsOnOwn, NoEventNoInfo, AttachHasTarget, ToldIsKept
<1>4. SourcesKept'
  BY <1>0, TimeoutAssumption DEF TypeOK, SourcesKept, Sourced, Target, Handed
<1>5. LiveWhileUsed'
  BY <1>0 DEF LiveWhileUsed, Handed
<1> QED
  BY <1>1, <1>2, <1>3, <1>4, <1>5

LEMMA AskInv ==
  ASSUME Inv, NEW t \in Threads, Ask(t)
  PROVE  Inv'
<1> USE DEF Inv
<1> DEFINE e == pc[t].event
           i == tm_info_[e]
           late == i # None /\ has_timed_out(i)
<1>0. /\ e \in Events /\ owner[e] = t /\ pc[t].step = "ask"
      /\ i \in Infos \cup {None}
  BY StepForms DEF Ask, TypeOK, ActsOnOwn
<1>1. /\ pc'[t] \in Steps /\ pc'[t].step \in {"drop", "ready"}
      /\ pc'[t] # Ready => pc'[t].event = e
      /\ pc' \in [Threads -> Steps]
      /\ \A u \in Threads : u # t => pc'[u] = pc[u]
  BY <1>0, StepForms, StepTypes DEF Ask, Become, TypeOK
<1>2. /\ UNCHANGED <<now, owner, tm_info_, object, deadline_, ref_cnt_>>
      /\ is_timed_out_' = IF late THEN [is_timed_out_ EXCEPT ![i] = TRUE] ELSE is_timed_out_
      /\ told' = IF late THEN told \cup {i} ELSE told
  BY DEF Ask
<1> HIDE DEF late
<1>3. TypeOK' /\ ToldIsKept'
  <2>1. late => i \in Infos
    BY <1>0 DEF late
  <2> QED
    BY <1>1, <1>2, <2>1 DEF TypeOK, ToldIsKept
<1>4. RefCountExact'
  BY <1>0, <1>1, <1>2, SameHolders DEF Attaching
<1>5. (ActsOnOwn /\ NoEventNoInfo /\ AttachHasTarget)'
  BY <1>0, <1>1, <1>2 DEF ActsOnOwn, NoEventNoInfo, AttachHasTarget
<1>6. SourcesKept'
  BY <1>0, <1>1, <1>2 DEF SourcesKept, Sourced, Target, Handed
<1>7. LiveWhileUsed'
  BY <1>0, <1>1, <1>2 DEF LiveWhileUsed, Handed
<1> QED
  BY <1>3, <1>4, <1>5, <1>6, <1>7

LEMMA AttachInv ==
  ASSUME Inv, NEW t \in Threads, set_attach(t)
  PROVE  Inv'
<1> USE DEF Inv
<1>0. PICK e \in Events, i \in Infos :
        pc[t].event = e /\ owner[e] = t /\ pc[t].step = "attach" /\ tm_info_[e] = i
  BY StepForms DEF set_attach, TypeOK, ActsOnOwn, AttachHasTarget
<1>1. /\ pc'[t] = Ready /\ pc'[t].step = "ready" /\ pc' \in [Threads -> Steps]
      /\ \A u \in Threads : u # t => pc'[u] = pc[u]
  BY <1>0, StepForms, StepTypes DEF set_attach, Become, TypeOK
<1>2. /\ UNCHANGED <<now, owner, tm_info_, object, deadline_, is_timed_out_, told>>
      /\ ref_cnt_' = [ref_cnt_ EXCEPT ![i] = @ + 1]
  BY <1>0 DEF set_attach, attach
<1>3. TypeOK' /\ ToldIsKept'
  BY <1>0, <1>1, <1>2 DEF TypeOK, ToldIsKept
<1>4. Attaching(e) /\ ~Attaching(e)' /\ \A f \in Events : f # e => (Attaching(f)' <=> Attaching(f))
  <2>1. \A u \in Threads : u # t => pc[u].event # e \/ pc[u].step # "attach"
    BY <1>0, StepForms DEF TypeOK, ActsOnOwn
  <2> QED
    BY <1>0, <1>1, <2>1 DEF Attaching
<1>5. ASSUME NEW j \in Infos
      PROVE  ref_cnt_'[j] = Cardinality(Holders(j)')
  <2>1. Holders(j)' = IF j = i THEN Holders(j) \cup {e} ELSE Holders(j)
    BY <1>0, <1>2, <1>4 DEF Holders
  <2>2. e \notin Holders(j)
    BY <1>4 DEF Holders
  <2>3. Cardinality(Holders(j) \cup {e}) = Cardinality(Holders(j)) + 1
    BY <2>2, HoldersFinite, FS_AddElement
  <2>4. ref_cnt_[j] = Cardinality(Holders(j)) /\ ref_cnt_ \in [Infos -> Nat]
    BY DEF RefCountExact, TypeOK
  <2>5. CASE j = i
    <3>1. ref_cnt_'[j] = ref_cnt_[j] + 1
      BY <1>2, <2>4, <2>5
    <3> QED
      BY <2>1, <2>3, <2>4, <2>5, <3>1
  <2>6. CASE j # i
    BY <2>1, <1>2, <2>4, <2>6
  <2> QED
    BY <2>5, <2>6
<1>6. RefCountExact'
  BY <1>5 DEF RefCountExact
<1>7. (ActsOnOwn /\ NoEventNoInfo /\ AttachHasTarget)'
  BY <1>0, <1>1, <1>2 DEF ActsOnOwn, NoEventNoInfo, AttachHasTarget
<1>8. SourcesKept'
  BY <1>0, <1>1, <1>2 DEF SourcesKept, Sourced, Target, Handed
<1>9. LiveWhileUsed'
  BY <1>0, <1>1, <1>2 DEF LiveWhileUsed, Handed
<1> QED
  BY <1>3, <1>6, <1>7, <1>8, <1>9

\* Sending an event, by a thread that then has nothing left to do.
LEMMA SendInv ==
  ASSUME Inv, NEW t \in Threads, NEW e \in Events, owner[e] = t, Send(e),
         pc[t].step \in {"ready", "drop"}, pc' = [pc EXCEPT ![t] = Ready]
  PROVE  Inv'
<1> USE DEF Inv, Send, infoVars
<1>0. /\ pc'[t] = Ready /\ pc'[t].step = "ready" /\ pc' \in [Threads -> Steps]
      /\ \A u \in Threads : u # t => pc'[u] = pc[u]
  BY StepForms, StepTypes DEF TypeOK
<1>1. TypeOK'
  BY <1>0 DEF TypeOK
<1>2. RefCountExact'
  BY <1>0, SameHolders DEF Attaching
<1>3. (ActsOnOwn /\ NoEventNoInfo /\ AttachHasTarget /\ ToldIsKept)'
  BY <1>0, TimeoutAssumption, StepForms
     DEF TypeOK, ActsOnOwn, NoEventNoInfo, AttachHasTarget, ToldIsKept
<1>4. SourcesKept'
  BY <1>0, TimeoutAssumption DEF TypeOK, SourcesKept, Sourced, Target, Handed
<1>5. LiveWhileUsed'
  BY <1>0 DEF LiveWhileUsed, Handed
<1> QED
  BY <1>1, <1>2, <1>3, <1>4, <1>5

\* When the only holder lets go, nobody else refers to the TimeoutInfo or is
\* about to: whoever attaches has it from an event that holds it.
LEMMA LastUse ==
  ASSUME Inv, NEW t \in Threads, NEW e \in Events, NEW o \in Infos,
         owner[e] = t, pc[t].step \in {"detach", "ready", "drop"},
         pc[t].step = "detach" => pc[t].event = e,
         e \in Holders(o), \A f \in Holders(o) : f = e
  PROVE  /\ \A f \in Events : tm_info_[f] = o => f = e
         /\ \A u \in Threads : ~Handed(u, o)
<1> USE DEF Inv
<1>0. tm_info_[e] = o /\ o # None
  BY TimeoutAssumption DEF Holders
<1>1. ASSUME NEW f \in Events, tm_info_[f] = o, f # e
      PROVE  FALSE
  <2>1. Attaching(f)
    BY <1>1 DEF Holders
  <2>2. PICK u \in Threads : pc[u].step = "attach" /\ pc[u].event = f
    BY <2>1 DEF Attaching
  <2>3. Target(u) = o /\ u # t
    BY <1>1, <2>2 DEF Target
  <2>4. Sourced(u)
    BY <1>0, <2>3 DEF SourcesKept
  <2>5. PICK g \in Events : g # f /\ owner[g] = u /\ tm_info_[g] = o
    BY <1>0, <1>1, <2>2, <2>3, <2>4 DEF Sourced
  <2>6. ~Attaching(g)
    BY <2>2, <2>5, SourceHolds
  <2> QED
    BY <2>3, <2>5, <2>6 DEF Holders
<1>2. ASSUME NEW u \in Threads, Handed(u, o)
      PROVE  FALSE
  <2>1. Target(u) = o /\ pc[u].step = "detach"
    BY <1>2 DEF Handed, Target
  <2>2. Sourced(u)
    BY <1>0, <2>1 DEF SourcesKept
  <2>3. PICK g \in Events : g # pc[u].event /\ owner[g] = u /\ tm_info_[g] = o
    BY <1>0, <2>1, <2>2 DEF Sourced
  <2>4. ~Attaching(g)
    BY <2>3, SourceHolds
  <2> QED
    BY <2>1, <2>3, <2>4 DEF Holders
<1> QED
  BY <1>1, <1>2

\* Letting go of an event's TimeoutInfo, for another one (n) or for none.
LEMMA ReleaseInv ==
  ASSUME Inv, NEW t \in Threads, NEW e \in Events, NEW n \in Infos \cup {None},
         owner[e] = t,
         pc[t].step \in {"detach", "ready", "drop"},
         pc[t].step = "detach" => pc[t].event = e /\ pc[t].tmi = n,
         pc[t].step # "detach" => n = None,
         release(tm_info_[e]),
         tm_info_' = [tm_info_ EXCEPT ![e] = n],
         \/ pc[t].step = "detach" /\ owner' = owner
         \/ n = None /\ owner' = [owner EXCEPT ![e] = None],
         pc' = [pc EXCEPT ![t] = IF n = None THEN Ready ELSE Step("attach", e, None)],
         UNCHANGED <<now, told>>
  PROVE  Inv'
<1> USE DEF Inv
<1>0. PICK o \in Infos \cup {None} : o = tm_info_[e]
  BY DEF TypeOK
<1>1. /\ UNCHANGED <<deadline_, is_timed_out_>>
      /\ o = None => UNCHANGED <<object, ref_cnt_>>
      /\ o # None => /\ ref_cnt_' = [ref_cnt_ EXCEPT ![o] = @ - 1]
                     /\ object' = [object EXCEPT ![o] = IF ref_cnt_[o] = 1 THEN "deleted" ELSE @]
  BY <1>0 DEF release, detach, infoVars
<1>2. /\ pc' \in [Threads -> Steps]
      /\ \A u \in Threads : u # t => pc'[u] = pc[u]
      /\ n = None => pc'[t] = Ready /\ pc'[t].step = "ready"
      /\ n # None => pc'[t].step = "attach" /\ pc'[t].event = e /\ pc'[t] # Ready
  BY StepForms, StepTypes DEF TypeOK
<1>3. /\ ~Attaching(e)
      /\ \A f \in Events : f # e => (Attaching(f)' <=> Attaching(f))
      /\ n # None => Attaching(e)'
  <2>1. ~Attaching(e)
    BY AttachedByOwner
  <2>2. \A f \in Events : f # e => (Attaching(f)' <=> Attaching(f))
    BY <1>2 DEF Attaching
  <2>3. n # None => Attaching(e)'
    BY <1>2 DEF Attaching
  <2> QED
    BY <2>1, <2>2, <2>3
<1>4. o # None => e \in Holders(o) /\ o \in Infos
  BY <1>0, <1>3 DEF Holders
<1>5. ASSUME NEW j \in Infos
      PROVE  ref_cnt_'[j] = Cardinality(Holders(j)') /\ ref_cnt_'[j] \in Nat
  <2>1. Holders(j)' = Holders(j) \ {e}
    BY <1>3, TimeoutAssumption DEF Holders, TypeOK
  <2>2. e \in Holders(j) <=> j = o
    BY <1>0, <1>3 DEF Holders
  <2>3. Cardinality(Holders(j) \ {e}) = IF j = o THEN Cardinality(Holders(j)) - 1 ELSE Cardinality(Holders(j))
    BY <2>2, HoldersFinite, FS_RemoveElement
  <2>4. ref_cnt_[j] = Cardinality(Holders(j)) /\ ref_cnt_ \in [Infos -> Nat]
    BY DEF RefCountExact, TypeOK
  <2>5. CASE j = o
    <3>1. ref_cnt_[j] > 0
      BY <1>4, <2>5, SoleHolder, TimeoutAssumption
    <3>2. ref_cnt_'[j] = ref_cnt_[j] - 1
      BY <1>1, <2>4, <2>5, TimeoutAssumption
    <3> QED
      BY <2>1, <2>3, <2>4, <2>5, <3>1, <3>2
  <2>6. CASE j # o
    <3>1. ref_cnt_'[j] = ref_cnt_[j]
      BY <1>1, <2>4, <2>6
    <3> QED
      BY <2>1, <2>3, <2>4, <2>6, <3>1
  <2> QED
    BY <2>5, <2>6
<1>6. RefCountExact'
  BY <1>5 DEF RefCountExact
<1>7. TypeOK'
  <2>1. ref_cnt_' \in [Infos -> Nat]
    <3>1. DOMAIN ref_cnt_' = Infos /\ ref_cnt_' = [j \in Infos |-> ref_cnt_'[j]]
      BY <1>1 DEF TypeOK
    <3> QED
      BY <1>5, <3>1
  <2> QED
    BY <1>1, <1>2, <2>1 DEF TypeOK
<1>8. (ActsOnOwn /\ NoEventNoInfo /\ AttachHasTarget /\ ToldIsKept)'
  <2>1. \A u \in Threads : u # t /\ pc[u] # Ready => pc[u].event # e
    BY DEF ActsOnOwn
  <2>2. ActsOnOwn'
    BY <1>2, <2>1 DEF ActsOnOwn, TypeOK
  <2>3. NoEventNoInfo'
    BY TimeoutAssumption DEF NoEventNoInfo, TypeOK
  <2>4. AttachHasTarget'
    BY <1>2, <2>1, StepForms DEF AttachHasTarget, TypeOK, ActsOnOwn
  <2>5. ToldIsKept'
    BY <1>1 DEF ToldIsKept
  <2> QED
    BY <2>2, <2>3, <2>4, <2>5
<1>9. ASSUME NEW u \in Threads, Target(u)' # None
      PROVE  Sourced(u)'
  <2>1. CASE u = t
    <3>1. pc[t].step = "detach" /\ Target(t) = n /\ n # None /\ owner' = owner
      BY <1>2, <1>9, <2>1 DEF Target
    <3>2. Target(t)' = n
      BY <1>2, <3>1 DEF Target, TypeOK
    <3>3. Sourced(t)
      BY <3>1 DEF SourcesKept
    <3>4. CASE \E f \in Events : f # e /\ owner[f] = t /\ tm_info_[f] = n
      BY <1>2, <2>1, <3>1, <3>2, <3>4 DEF Sourced, TypeOK
    <3>5. CASE /\ \A f \in Events : tm_info_[f] # n
               /\ \A v \in Threads : v # t => ~Handed(v, n)
      <4>1. \A f \in Events : tm_info_'[f] = n => f = e
        BY <3>5 DEF TypeOK
      <4>2. \A v \in Threads : v # t => ~Handed(v, n)'
        BY <1>2, <3>5 DEF Handed
      <4> QED
        BY <1>2, <2>1, <3>1, <3>2, <4>1, <4>2 DEF Sourced, Handed
    <3> QED
      BY <3>1, <3>3, <3>4, <3>5 DEF Sourced
  <2>2. CASE u # t
    <3>0. pc'[u] = pc[u] /\ (pc[u] # Ready => pc[u].event # e /\ pc[u].event \in Events)
      BY <1>2, <2>2 DEF ActsOnOwn
    <3>1. Target(u)' = Target(u) /\ Sourced(u) /\ pc[u] # Ready
      BY <2>2, <3>0, <1>9, StepForms DEF SourcesKept, Target, TypeOK
    <3>2. CASE \E f \in Events : f # pc[u].event /\ owner[f] = u /\ tm_info_[f] = Target(u)
      BY <2>2, <3>0, <3>1, <3>2 DEF Sourced, TypeOK
    <3>3. CASE /\ \A f \in Events : tm_info_[f] = Target(u) => pc[u].step = "attach" /\ f = pc[u].event
               /\ \A v \in Threads : v # u => ~Handed(v, Target(u))
      <4>1. n # Target(u)
        BY <2>2, <3>1, <3>3, <1>9 DEF Handed
      <4>2. \A f \in Events : tm_info_'[f] = Target(u) => pc[u].step = "attach" /\ f = pc[u].event
        BY <3>3, <4>1 DEF TypeOK
      <4>3. \A v \in Threads : v # u => ~(Handed(v, Target(u))')
        BY <1>2, <3>1, <3>3 DEF Handed
      <4> QED
        BY <3>0, <3>1, <4>2, <4>3 DEF Sourced, Handed
    <3> QED
      BY <3>1, <3>2, <3>3 DEF Sourced
  <2> QED
    BY <2>1, <2>2
<1>10. ASSUME NEW j \in Infos
       PROVE  object'[j] = "live" <=>
                \/ \E f \in Events : tm_info_'[f] = j
                \/ \E u \in Threads : Handed(u, j)'
  <2>1. object[j] = "live" <=>
          \/ \E f \in Events : tm_info_[f] = j
          \/ \E u \in Threads : Handed(u, j)
    BY DEF LiveWhileUsed
  <2>2. \A u \in Threads : Handed(u, j)' <=> u # t /\ Handed(u, j)
    BY <1>2 DEF Handed
  <2>3. CASE j # o
    <3>1. object'[j] = object[j]
      BY <1>1, <2>3 DEF TypeOK
    <3>2. Handed(t, j) <=> j = n
      BY TimeoutAssumption DEF Handed
    <3>3. \A f \in Events : tm_info_'[f] = j <=> (f = e /\ j = n) \/ (f # e /\ tm_info_[f] = j)
      BY DEF TypeOK
    <3>4. tm_info_[e] # j
      BY <1>0, <2>3
    <3> QED
      BY <2>1, <2>2, <3>1, <3>2, <3>3, <3>4
  <2>4. CASE j = o /\ ref_cnt_[o] = 1
    <3>1. o \in Infos /\ e \in Holders(o) /\ \A f \in Holders(o) : f = e
      BY <1>4, <2>4, SoleHolder, TimeoutAssumption
    <3>2. /\ \A f \in Events : tm_info_[f] = o => f = e
          /\ \A u \in Threads : ~Handed(u, o)
      BY <3>1, LastUse
    <3>3. object'[j] = "deleted"
      BY <1>1, <2>4, TimeoutAssumption DEF TypeOK
    <3>4. n # o
      BY <2>4, <3>2, TimeoutAssumption DEF Handed
    <3> QED
      BY <2>2, <2>4, <3>2, <3>3, <3>4 DEF TypeOK
  <2>5. CASE j = o /\ ref_cnt_[o] # 1
    <3>1. o \in Infos /\ e \in Holders(o)
      BY <1>4, <2>5, TimeoutAssumption
    <3>2. PICK f \in Holders(o) : f # e
      BY <2>5, <3>1, SoleHolder
    <3>3. f \in Events /\ tm_info_'[f] = o
      BY <3>2 DEF Holders, TypeOK
    <3>4. object'[j] = object[j]
      BY <1>1, <2>5, TimeoutAssumption DEF TypeOK
    <3> QED
      BY <1>0, <2>1, <2>5, <3>3, <3>4
  <2> QED
    BY <2>3, <2>4, <2>5
<1> QED
  BY <1>6, <1>7, <1>8, <1>9, <1>10 DEF SourcesKept, LiveWhileUsed

LEMMA DetachInv ==
  ASSUME Inv, NEW t \in Threads, set_detach(t)
  PROVE  Inv'
<1>1. pc[t].step = "detach" /\ pc[t].event \in Events /\ owner[pc[t].event] = t
      /\ pc[t].tmi \in Infos \cup {None}
  BY StepForms DEF set_detach, Inv, TypeOK, ActsOnOwn
<1>2. PICK e \in Events, n \in Infos \cup {None} : pc[t].event = e /\ pc[t].tmi = n
  BY <1>1
<1>3. /\ release(tm_info_[e]) /\ tm_info_' = [tm_info_ EXCEPT ![e] = n]
      /\ pc' = [pc EXCEPT ![t] = IF n = None THEN Ready ELSE Step("attach", e, None)]
      /\ UNCHANGED <<now, owner, told>>
  BY <1>2 DEF set_detach, Become
<1> QED
  BY <1>1, <1>2, <1>3, ReleaseInv

\* done(), by a thread that then has nothing left to do.
LEMMA SendOrDeleteInv ==
  ASSUME Inv, NEW t \in Threads, NEW e \in Events, owner[e] = t, Send(e) \/ Delete(e),
         pc[t].step \in {"ready", "drop"}, pc' = [pc EXCEPT ![t] = Ready]
  PROVE  Inv'
<1>1. CASE Send(e)
  BY <1>1, SendInv
<1>2. CASE Delete(e)
  BY <1>2, ReleaseInv DEF Delete
<1> QED
  BY <1>1, <1>2

\* Every step keeps the invariant.
LEMMA NextInv == Inv /\ [Next]_vars => Inv'
<1> SUFFICES ASSUME Inv, [Next]_vars PROVE Inv'
  OBVIOUS
<1>1. CASE UNCHANGED vars
  <2>1. \A i : Holders(i)' = Holders(i)
    BY <1>1 DEF vars, infoVars, Holders, Attaching
  <2> QED
    BY <1>1, <2>1 DEF vars, infoVars, Inv, TypeOK, RefCountExact, ActsOnOwn, NoEventNoInfo,
       SourcesKept, Sourced, Target, AttachHasTarget, LiveWhileUsed, Handed, ToldIsKept
<1>2. ASSUME NEW d \in Time, SetClock(d) PROVE Inv'
  BY <1>2, ClockInv
<1>3. ASSUME NEW t \in Threads, ThreadStep(t) PROVE Inv'
  <2>1. CASE set_detach(t)
    BY <2>1, DetachInv
  <2>2. CASE set_attach(t)
    BY <2>2, AttachInv
  <2>3. CASE Ask(t)
    BY <2>3, AskInv
  <2>4. CASE Drop(t)
    <3>1. pc[t].event \in Events /\ owner[pc[t].event] = t
      BY <2>4, StepForms DEF Drop, Inv, TypeOK, ActsOnOwn
    <3> QED
      BY <2>4, <3>1, SendOrDeleteInv DEF Drop, Become
  <2>5. ASSUME NEW e \in Events, NewEvent(t, e) PROVE Inv'
    BY <2>5, NewEventInv
  <2>6. ASSUME NEW e \in Events, Dispose(t, e) PROVE Inv'
    <3>1. pc' = [pc EXCEPT ![t] = Ready] /\ pc[t].step = "ready"
      BY <2>6, StepForms DEF Dispose, Inv, TypeOK
    <3> QED
      BY <2>6, <3>1, SendOrDeleteInv DEF Dispose
  <2>7. ASSUME NEW e \in Events, Take(t, e) PROVE Inv'
    BY <2>7, TakeInv
  <2>8. ASSUME NEW e \in Events, NEW i \in Infos, NEW d \in Time, set_deadline(t, e, i, d)
        PROVE  Inv'
    BY <2>8, SetDeadlineInv
  <2>9. ASSUME NEW e \in Events, NEW f \in Events, share(t, e, f) PROVE Inv'
    BY <2>9, ShareInv
  <2> QED
    BY <1>3, <2>1, <2>2, <2>3, <2>4, <2>5, <2>6, <2>7, <2>8, <2>9 DEF ThreadStep
<1> QED
  BY <1>1, <1>2, <1>3 DEF Next

\* The inductive invariant of deadlines holds in every reachable state.
THEOREM TimeoutInvariant == Spec => []Inv
BY InitInv, NextInv, PTL DEF Spec

\* Every field of StageEvent and TimeoutInfo keeps its type; ref_cnt_ is never
\* negative.
THEOREM TimeoutTypes == Spec => []TypeOK
<1>1. Inv => TypeOK
  BY DEF Inv
<1> QED
  BY <1>1, TimeoutInvariant, PTL

\* A TimeoutInfo is deleted by the last event that lets go of it and never
\* before, on whatever threads its events are.
THEOREM InfosLiveWhileUsed == Spec => []LiveWhileUsed
<1>1. Inv => LiveWhileUsed
  BY DEF Inv
<1> QED
  BY <1>1, TimeoutInvariant, PTL

\* Only Ask() changes what a thread that is asking does next, and it does not
\* let it go on with an event whose deadline has passed.
LEMMA AskedOnce ==
  ASSUME Inv, [Next]_vars, NEW t \in Threads,
         pc[t].step = "ask", tm_info_[pc[t].event] \in told
  PROVE  pc'[t] # Ready
<1>0. Ready.step = "ready"
  BY DEF Ready, Step
<1>1. CASE Ask(t)
  <2>1. tm_info_[pc[t].event] # None /\ has_timed_out(tm_info_[pc[t].event])
    BY TimeoutAssumption DEF Inv, TypeOK, ToldIsKept, has_timed_out
  <2>2. pc[t].event \in Events
    BY <1>0, StepForms DEF Inv, TypeOK
  <2>3. pc'[t] = Step("drop", pc[t].event, None)
    BY <1>1, <2>1 DEF Ask, Become, Inv, TypeOK
  <2> QED
    BY <2>2, <2>3, StepTypes
<1>2. CASE pc'[t] = pc[t]
  BY <1>0, <1>2
<1>3. Ask(t) \/ pc'[t] = pc[t]
  <2>1. ASSUME NEW u \in Threads, ThreadStep(u), u # t PROVE pc'[t] = pc[t]
    BY <2>1 DEF ThreadStep, set_detach, set_attach, Ask, Drop, NewEvent, Dispose, Take,
       set_deadline, share, Become, Inv, TypeOK
  <2>2. CASE ThreadStep(t)
    BY <2>2, <1>0 DEF ThreadStep, set_detach, set_attach, Drop, NewEvent, Dispose, Take,
       set_deadline, share
  <2>3. CASE UNCHANGED vars
    BY <2>3 DEF vars
  <2>4. ASSUME NEW d \in Time, SetClock(d) PROVE pc'[t] = pc[t]
    BY <2>4 DEF SetClock
  <2> QED
    BY <2>1, <2>2, <2>3, <2>4 DEF Next
<1> QED
  BY <1>1, <1>2, <1>3

\* Once has_timed_out() was TRUE for one event of a deadline, run_thread()
\* gives no event of that deadline to a handler, whatever the clock does.
THEOREM PassedIsPassed == Spec => TimedOutForGood
<1>1. Inv /\ [Next]_vars =>
        [\A t \in Threads :
           pc[t].step = "ask" /\ tm_info_[pc[t].event] \in told => pc'[t] # Ready]_vars
  BY AskedOnce
<1> QED
  BY <1>1, TimeoutInvariant, PTL DEF Spec, TimedOutForGood

=============================================================================
