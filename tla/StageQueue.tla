----------------------------- MODULE StageQueue -----------------------------
(***************************************************************************)
(* What the stages of a pipeline promise to those who add events to them,  *)
(* whatever threads serve them (Stage's interface, stage.h):               *)
(*   - an open stage is committed to every event it accepts, and takes     *)
(*     them up in the order of arrival;                                    *)
(*   - a stage that is closed, or about to be, keeps what it accepts until *)
(*     it is opened again;                                                 *)
(*   - a stage is closed only when every event it was committed to has     *)
(*     been taken up and handled, and a closed stage handles nothing.      *)
(***************************************************************************)
EXTENDS Sequences

CONSTANTS Stages, Events, Pipeline

VARIABLES
  committed,  \* [Stages -> Seq(Events)]: accepted, to be handled before closing
  kept,       \* [Stages -> Seq(Events)]: accepted while not open
  held,       \* [Stages -> SUBSET Events]: being handled
  status      \* [Stages -> {"closed", "open", "closing"}]

vars == <<committed, kept, held, status>>

Init ==
  /\ committed = [s \in Stages |-> <<>>]
  /\ kept = [s \in Stages |-> <<>>]
  /\ held = [s \in Stages |-> {}]
  /\ status = [s \in Stages |-> "closed"]

Elements(q) == {q[i] : i \in DOMAIN q}

Present(e) ==
  \E s \in Stages : e \in Elements(committed[s]) \cup Elements(kept[s]) \cup held[s]

Accept(s, e) ==
  IF status[s] = "open"
    THEN committed' = [committed EXCEPT ![s] = Append(@, e)] /\ UNCHANGED kept
    ELSE kept' = [kept EXCEPT ![s] = Append(@, e)] /\ UNCHANGED committed

Add(s, e) ==
  /\ ~Present(e)
  /\ Accept(s, e)
  /\ UNCHANGED <<held, status>>

TakeUp(s) ==
  /\ status[s] # "closed"
  /\ committed[s] # <<>>
  /\ held' = [held EXCEPT ![s] = @ \cup {Head(committed[s])}]
  /\ committed' = [committed EXCEPT ![s] = Tail(@)]
  /\ UNCHANGED <<kept, status>>

Complete(s, e) ==
  /\ e \in held[s]
  /\ held' = [held EXCEPT ![s] = @ \ {e}]
  /\ UNCHANGED <<committed, kept, status>>

PassOn(s, r, e) ==
  /\ e \in held[s]
  /\ r \in Pipeline[s]
  /\ held' = [held EXCEPT ![s] = @ \ {e}]
  /\ Accept(r, e)
  /\ UNCHANGED status

Open(s) ==
  /\ status[s] = "closed"
  /\ status' = [status EXCEPT ![s] = "open"]
  /\ committed' = [committed EXCEPT ![s] = kept[s]]
  /\ kept' = [kept EXCEPT ![s] = <<>>]
  /\ UNCHANGED held

BeginClose(s) ==
  /\ status[s] = "open"
  /\ status' = [status EXCEPT ![s] = "closing"]
  /\ UNCHANGED <<committed, kept, held>>

Close(s) ==
  /\ status[s] \in {"open", "closing"}
  /\ committed[s] = <<>> /\ held[s] = {}
  /\ status' = [status EXCEPT ![s] = "closed"]
  /\ UNCHANGED <<committed, kept, held>>

Next ==
  \E s \in Stages :
    \/ \E e \in Events : Add(s, e) \/ Complete(s, e)
    \/ \E e \in Events, r \in Stages : PassOn(s, r, e)
    \/ TakeUp(s) \/ Open(s) \/ BeginClose(s) \/ Close(s)

Spec == Init /\ [][Next]_vars

=============================================================================
