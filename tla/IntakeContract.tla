--------------------------- MODULE IntakeContract ---------------------------
(***************************************************************************)
(* What the inbox promises to providers and operators: an event is taken   *)
(* in once, and not behind the maintenance fence; an admission makes the   *)
(* one run of its item or finds it made; an event is settled once, and as  *)
(* consumed only when what it asks for is done.  InboxIntake implements    *)
(* this under the mapping of IntakeRefinement.                             *)
(***************************************************************************)
CONSTANTS Deliveries, Items, Kind, Item, Group

VARIABLES
    closed,     \* the maintenance fence
    event,      \* "unknown", "open", "consumed", "stale" or "dead"
    run         \* per item: "none", "running" or "ended"

vars == <<closed, event, run>>

Init ==
    /\ closed \in BOOLEAN
    /\ event = [d \in Deliveries |-> "unknown"]
    /\ run = [i \in Items |-> "none"]

Fence == closed' = ~closed /\ UNCHANGED <<event, run>>

\* The first of a group is open, the others are settled as they come.
Accept(d) ==
    /\ ~closed
    /\ event[d] = "unknown"
    /\ event' = [event EXCEPT ![d] =
                    IF \E e \in Deliveries :
                        Group[e] = Group[d] /\ event[e] # "unknown"
                    THEN "stale" ELSE "open"]
    /\ UNCHANGED <<closed, run>>

\* A run and the consumption of its event are one step.
Admit(d) ==
    /\ Kind[d] = "admission" /\ event[d] = "open"
    /\ run[Item[d]] = "none"
    /\ event' = [event EXCEPT ![d] = "consumed"]
    /\ run' = [run EXCEPT ![Item[d]] = "running"]
    /\ UNCHANGED closed

\* Settled with what the event asks for already done.
Consume(d) ==
    /\ event[d] = "open"
    /\ \/ Kind[d] = "admission" /\ run[Item[d]] # "none"
       \/ Kind[d] \in {"stop", "control"} /\ run[Item[d]] = "ended"
    /\ event' = [event EXCEPT ![d] = "consumed"]
    /\ UNCHANGED <<closed, run>>

\* Settled without effect.  A readable admission is never dropped; several
\* unreadable rows are set aside together.
Drop(D) ==
    /\ \A d \in D : event[d] = "open"
    /\ \/ event' = [d \in Deliveries |-> IF d \in D THEN "dead" ELSE event[d]]
       \/ \E d \in D : /\ Kind[d] # "admission"
                       /\ event' = [event EXCEPT ![d] = "stale"]
    /\ UNCHANGED <<closed, run>>

End(i) ==
    /\ run[i] = "running"
    /\ run' = [run EXCEPT ![i] = "ended"]
    /\ UNCHANGED <<closed, event>>

Next ==
    \/ Fence
    \/ \E d \in Deliveries : Accept(d) \/ Admit(d) \/ Consume(d)
    \/ \E D \in SUBSET Deliveries : Drop(D)
    \/ \E i \in Items : End(i)

Spec == Init /\ [][Next]_vars
=============================================================================
