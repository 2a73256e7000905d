--------------------------- MODULE EffectContract ---------------------------
(***************************************************************************)
(* What the effects table promises to the rest of the supervisor, whatever *)
(* its workers and its provider do: an effect that was scheduled is        *)
(* performed at most once, and is settled with what the world shows of it  *)
(* or, for the few kinds an operator may reject, with a rejection.         *)
(* EffectDelivery implements this under the mapping of EffectRefinement.   *)
(***************************************************************************)
EXTENDS Naturals

CONSTANTS
    Effects,    \* effect ids
    Mutations,  \* those that change the world
    Guarded,    \* mutations only their own execution can confirm
    Rejectable  \* those an operator may reject

VARIABLES
    state,      \* "none", "open", "acknowledged" or "rejected"
    performed,  \* how often the world was asked to change
    fact        \* what the world shows: "absent", "confirmed" or "rejected"

vars == <<state, performed, fact>>

Outcomes == {"confirmed", "rejected"}

Init ==
    /\ state = [e \in Effects |-> "none"]
    /\ performed = [e \in Effects |-> 0]
    /\ fact = [e \in Effects |-> "absent"]

\* The intent is durable.
Promise(e) ==
    /\ state[e] = "none"
    /\ state' = [state EXCEPT ![e] = "open"]
    /\ UNCHANGED <<performed, fact>>

\* The one execution.  A late request may still arrive when the effect has
\* been settled with what the world showed by itself.
Perform(e) ==
    /\ e \in Mutations
    /\ state[e] # "none"
    /\ performed[e] = 0
    /\ performed' = [performed EXCEPT ![e] = 1]
    /\ \/ UNCHANGED fact
       \/ /\ fact[e] = "absent"
          /\ \E o \in Outcomes : fact' = [fact EXCEPT ![e] = o]
    /\ UNCHANGED state

\* The outcome shows; a guarded mutation is confirmed only if it was performed.
Appear(e) ==
    /\ fact[e] = "absent"
    /\ \E o \in Outcomes :
        /\ e \in Guarded /\ o = "confirmed" => performed[e] = 1
        /\ fact' = [fact EXCEPT ![e] = o]
    /\ UNCHANGED <<state, performed>>

\* The settlement agrees with the world.
Settle(e) ==
    /\ state[e] = "open"
    /\ fact[e] # "absent"
    /\ state' = [state EXCEPT ![e] =
                    IF fact[e] = "confirmed" THEN "acknowledged" ELSE "rejected"]
    /\ UNCHANGED <<performed, fact>>

\* An operator settles without the world.
Refuse(e) ==
    /\ e \in Rejectable
    /\ state[e] = "open"
    /\ state' = [state EXCEPT ![e] = "rejected"]
    /\ UNCHANGED <<performed, fact>>

Next == \E e \in Effects :
    Promise(e) \/ Perform(e) \/ Appear(e) \/ Settle(e) \/ Refuse(e)

Spec == Init /\ [][Next]_vars
=============================================================================
