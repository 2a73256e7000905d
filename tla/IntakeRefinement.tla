-------------------------- MODULE IntakeRefinement --------------------------
(***************************************************************************)
(* InboxIntake implements IntakeContract: a row is open from its insertion *)
(* as pending to its settlement, whoever holds it.                         *)
(***************************************************************************)
EXTENDS InboxIntake

Open == {"pending", "processing"}

Event(d) ==
    CASE status[d] = "absent" -> "unknown"
      [] status[d] \in Open -> "open"
      [] OTHER -> status[d]

events == [d \in Deliveries |-> Event(d)]

Contract == INSTANCE IntakeContract WITH event <- events

\* Every behaviour of the inbox and its workers is one of the contract: no
\* event is handled for another of its group, taken in behind the fence,
\* settled twice, or consumed with nothing done.
ImplementsContract == Contract!Spec
=============================================================================
