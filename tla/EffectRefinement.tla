-------------------------- MODULE EffectRefinement --------------------------
(***************************************************************************)
(* EffectDelivery implements EffectContract: a row is open from its        *)
(* insertion to its settlement, whichever of pending, processing and       *)
(* unknown it is in, and the provider is the world.                        *)
(***************************************************************************)
EXTENDS EffectDelivery

OpenStatuses == {"pending", "processing", "unknown"}

Contract == INSTANCE EffectContract WITH
    Guarded <- Prepared,
    state <- [e \in Effects |->
                 IF status[e] \in OpenStatuses THEN "open" ELSE status[e]],
    performed <- executions,
    fact <- target

\* Every behaviour of the table, its workers and the provider is one of the
\* contract: no second execution, no settlement the world contradicts.
ImplementsContract == Contract!Spec
=============================================================================
