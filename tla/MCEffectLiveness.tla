-------------------------- MODULE MCEffectLiveness --------------------------
(* Liveness of EffectDelivery for TLC.  A behaviour is about the effects in  *)
(* play, whose runs are live: an integration that is served while processes  *)
(* die, or a push and a provider wait that compete for the worker and are    *)
(* owed no answer.  The others belong to runs that ended before they were    *)
(* scheduled.                                                                *)
EXTENDS EffectDelivery

CONSTANTS push, integrate, wait

LiveInit ==
    /\ Fresh
    /\ \E inPlay \in {{integrate}, {push, wait}} :
        /\ live = inPlay
        /\ crashes = IF integrate \in inPlay THEN 0 ELSE MaxCrashes
        /\ target = [e \in Effects |->
               IF e \in inPlay \cup {integrate} THEN "absent" ELSE "confirmed"]

LiveSpec ==
    /\ LiveInit /\ [][Next]_vars
    /\ Scheduling
    /\ integrate \in live => ServiceOf({integrate})

\* RowsResolve, for the behaviours in which the effect is served.
ServedRowsResolve == integrate \in live => RowsResolve

\* What is owed is delivered: a launch that was fenced settles, an effect that is
\* served is settled or fenced, and none that is due waits for ever.
DeliverySettles ==
    /\ FencedLaunchesSettle
    /\ ServedRowsResolve
    /\ NoStarvation
=============================================================================
